---- MODULE Spec2Model ----
(***************************************************************************)
(* Model of the recipe import parser, recipes/services.py                  *)
(* (RecipeParserService): page retrieval, the field extractors, the        *)
(* per-item ingredient parser and the unit normalizer; and of the views,   *)
(* forms and tables of the site that store recipes, their ingredients and  *)
(* the shopping lists (recipes/views.py, api_views.py, forms.py,           *)
(* models.py, db_service.py).                                              *)
(*                                                                         *)
(* Text.  A Python str is a TLA+ string, one model character per source    *)
(* character.  Module strings are ASCII, so every Cyrillic letter and the  *)
(* two long dashes of the source are written with one ASCII stand-in,      *)
(* upper case for upper case:                                              *)
(*                                                                         *)
(*    а a   б b   в v   г g   д d   е e   з z   и i   к k   л l   м m      *)
(*    н n   о o   п p   р r   с s   т t   у u   ц q   ч c   ш w   щ x      *)
(*    ы y   ь f   ю h   я j                                                *)
(*    – (en dash, U+2013) ~        — (em dash, U+2014) =                   *)
(*                                                                         *)
(* Digits, space, tab, newline and . , - | _ stand for themselves.  So     *)
(* "500,5 g muki" is the line "500,5 г муки", "st.l." is "ст.л.", "wt" is  *)
(* "шт", "stakan" is "стакан" and "Reqept bez nazvanij" is the placeholder *)
(* title "Рецепт без названия".                                            *)
(***************************************************************************)
EXTENDS Integers, Sequences, FiniteSets, Bags, TLC

VARIABLES
    unitIn,     \* argument of the _normalize_unit call under check
    unitOut,    \* its return value, NotRun before the call
    line,       \* argument of the _parse_ingredient_string call under check
    parsed,     \* its return value, NotRun before the call
    pc,         \* position of parse_recipe
    calls,      \* number of parse_recipe invocations so far
    response,   \* what requests.get met in the current invocation
    soup,       \* self.soup: None or the parsed document
    fetches,    \* number of requests.get calls of the current invocation
    ran,        \* the extractors that ran in the current invocation, in order
    recipe_data,\* the dictionary parse_recipe builds
    result,     \* what parse_recipe returned: NotRun, None or a dictionary
    extracted,  \* outcome of each extractor called directly on the instance
    parsers,    \* of each of two parser instances: position, locals, result
    soups,      \* the soup attribute of each of the two instances
    Recipe_objects,             \* the rows of the Recipe table
    Ingredient_objects,         \* the rows of the Ingredient table
    RecipeIngredient_objects,   \* the rows of the RecipeIngredient table
    ShoppingList_objects,       \* the rows of the ShoppingList table
    id_seq,     \* the last key the sequence of each table has given out
    inflight,   \* the requests being handled, a bag
    http        \* the last response a view sent

\* the variables of the two pure functions, of one parse_recipe invocation,
\* of the direct extractor calls, of the pair of instances and of the site
pureVars == <<unitIn, unitOut, line, parsed>>
parserVars == <<pc, calls, response, soup, fetches, ran, recipe_data, result>>
directVars == <<extracted>>
pairVars == <<parsers, soups>>
siteVars == <<Recipe_objects, Ingredient_objects, RecipeIngredient_objects,
              ShoppingList_objects, id_seq, inflight, http>>

vars == <<pureVars, parserVars, directVars, pairVars, siteVars>>

\* Python's None, and the marker of a call that has not returned yet.
None == [none |-> TRUE]
NotRun == [notrun |-> TRUE]

\* A call that returned the value v.
Returned(v) == [value |-> v]

-----------------------------------------------------------------------------
(* Strings                                                                 *)

\* s[i] of Python, 1-based; "" past the end.
Ch(s, i) == IF i >= 1 /\ i <= Len(s) THEN SubSeq(s, i, i) ELSE ""

\* s[i-1:j-1] of Python: the characters at positions i .. j-1.
Slice(s, i, j) ==
    LET e == IF j - 1 > Len(s) THEN Len(s) ELSE j - 1
    IN  IF e < i THEN "" ELSE SubSeq(s, i, e)

Digits == {"0", "1", "2", "3", "4", "5", "6", "7", "8", "9"}
LowerLetters == {"a", "b", "v", "g", "d", "e", "z", "i", "j", "k", "l", "m",
                 "n", "o", "p", "r", "s", "t", "u", "h", "q", "c", "w", "x",
                 "y", "f"}
UpperLetters == {"A", "B", "V", "G", "D", "E", "Z", "I", "J", "K", "L", "M",
                 "N", "O", "P", "R", "S", "T", "U", "H", "Q", "C", "W", "X",
                 "Y", "F"}

\* str.lower() on one character.
LowerCh(c) ==
    CASE c = "A" -> "a" [] c = "B" -> "b" [] c = "V" -> "v" [] c = "G" -> "g"
      [] c = "D" -> "d" [] c = "E" -> "e" [] c = "Z" -> "z" [] c = "I" -> "i"
      [] c = "J" -> "j" [] c = "K" -> "k" [] c = "L" -> "l" [] c = "M" -> "m"
      [] c = "N" -> "n" [] c = "O" -> "o" [] c = "P" -> "p" [] c = "R" -> "r"
      [] c = "S" -> "s" [] c = "T" -> "t" [] c = "U" -> "u" [] c = "H" -> "h"
      [] c = "Q" -> "q" [] c = "C" -> "c" [] c = "W" -> "w" [] c = "X" -> "x"
      [] c = "Y" -> "y" [] c = "F" -> "f"
      [] OTHER -> c

\* \s, \d, \w and . of the re module (str patterns, no DOTALL).
IsSpace(c) == c \in {" ", "\t", "\n"}
IsDigit(c) == c \in Digits
IsWord(c) == c \in Digits \cup LowerLetters \cup UpperLetters \cup {"_"}
IsDot(c) == c # "" /\ c # "\n"

RECURSIVE Lower(_)
\* str.lower()
Lower(s) == IF s = "" THEN "" ELSE LowerCh(Ch(s, 1)) \o Lower(Slice(s, 2, Len(s) + 1))

RECURSIVE Remove(_, _)
\* s.replace(c, '') for a one-character c
Remove(s, c) ==
    IF s = "" THEN ""
    ELSE (IF Ch(s, 1) = c THEN "" ELSE Ch(s, 1)) \o Remove(Slice(s, 2, Len(s) + 1), c)

RECURSIVE Replace(_, _, _)
\* s.replace(c, d) for one-character c and d
Replace(s, c, d) ==
    IF s = "" THEN ""
    ELSE (IF Ch(s, 1) = c THEN d ELSE Ch(s, 1)) \o Replace(Slice(s, 2, Len(s) + 1), c, d)

RECURSIVE LStrip(_)
LStrip(s) == IF s # "" /\ IsSpace(Ch(s, 1)) THEN LStrip(Slice(s, 2, Len(s) + 1)) ELSE s

RECURSIVE RStrip(_)
RStrip(s) == IF s # "" /\ IsSpace(Ch(s, Len(s))) THEN RStrip(Slice(s, 1, Len(s))) ELSE s

\* str.strip(), and get_text(strip=True) of an element with one text node
Strip(s) == RStrip(LStrip(s))

-----------------------------------------------------------------------------
(* Regular expressions.  re tries the alternatives of a pattern in a fixed *)
(* order (a greedy repetition longest first, a lazy one shortest first, an *)
(* alternation left to right) and answers with the first that lets the     *)
(* whole pattern match.  Each piece below is the sequence, in that order,  *)
(* of the positions at which the piece can end when it starts at i; a      *)
(* pattern's match is the head of the sequence of its complete matches.    *)

RECURSIVE Flatten(_)
Flatten(ss) == IF ss = <<>> THEN <<>> ELSE Head(ss) \o Flatten(Tail(ss))

\* The ends of "xs then F", in order.
FlatMap(xs, F(_)) == Flatten([k \in 1..Len(xs) |-> F(xs[k])])

\* <<j, j-1, ..., i>>
Down(j, i) == [k \in 1..(j + 1 - i) |-> j + 1 - k]

\* <<i, i+1, ..., j>>
Up(i, j) == [k \in 1..(j + 1 - i) |-> i + k - 1]

RECURSIVE DigitRunEnd(_, _)
DigitRunEnd(s, i) == IF IsDigit(Ch(s, i)) THEN DigitRunEnd(s, i + 1) ELSE i

RECURSIVE SpaceRunEnd(_, _)
SpaceRunEnd(s, i) == IF IsSpace(Ch(s, i)) THEN SpaceRunEnd(s, i + 1) ELSE i

RECURSIVE WordRunEnd(_, _)
WordRunEnd(s, i) == IF IsWord(Ch(s, i)) THEN WordRunEnd(s, i + 1) ELSE i

RECURSIVE DotRunEnd(_, _)
DotRunEnd(s, i) == IF IsDot(Ch(s, i)) THEN DotRunEnd(s, i + 1) ELSE i

\* \s*
WsEnds(s, i) == Down(SpaceRunEnd(s, i), i)

\* \w*
WordEnds(s, i) == Down(WordRunEnd(s, i), i)

\* c? for a character class
OptEnds(s, i, class) == (IF Ch(s, i) \in class THEN <<i + 1>> ELSE <<>>) \o <<i>>

\* a character class, once
OneEnds(s, i, class) == IF Ch(s, i) \in class THEN <<i + 1>> ELSE <<>>

\* a literal under re.IGNORECASE
LitEnds(s, i, lit) ==
    IF Lower(Slice(s, i, i + Len(lit))) = lit THEN <<i + Len(lit)>> ELSE <<>>

\* (\d+(?:[.,]\d+)?)
NumEnds(s, i) ==
    LET j == DigitRunEnd(s, i)
        k == DigitRunEnd(s, j + 1)
        frac == IF Ch(s, j) \in {".", ","} /\ k > j + 1 THEN Down(k, j + 2) ELSE <<>>
    IN  IF j = i THEN <<>> ELSE frac \o Down(j, i + 1)

\* \.?\s*л\.?  , the tail of the spoon units ст\.?\s*л\.? and ч\.?\s*л\.?
SpoonTailEnds(s, i) ==
    FlatMap(OptEnds(s, i, {"."}), LAMBDA d :
     FlatMap(WsEnds(s, d), LAMBDA w :
      FlatMap(LitEnds(s, w, "l"), LAMBDA l : OptEnds(s, l, {"."}))))

\* (г|мл|кг|л|шт|ст\.?\s*л\.?|ч\.?\s*л\.?|стакан\w*|штук\w*)
UnitEnds(s, i) ==
       LitEnds(s, i, "g")
    \o LitEnds(s, i, "ml")
    \o LitEnds(s, i, "kg")
    \o LitEnds(s, i, "l")
    \o LitEnds(s, i, "wt")
    \o FlatMap(LitEnds(s, i, "st"), LAMBDA e : SpoonTailEnds(s, e))
    \o FlatMap(LitEnds(s, i, "c"), LAMBDA e : SpoonTailEnds(s, e))
    \o FlatMap(LitEnds(s, i, "stakan"), LAMBDA e : WordEnds(s, e))
    \o FlatMap(LitEnds(s, i, "wtuk"), LAMBDA e : WordEnds(s, e))

\* [–—-]
Dashes == {"~", "=", "-"}

-----------------------------------------------------------------------------
(* The unit normalizer                                                     *)

\* unit_map, in insertion order (the order dict.items() yields)
unit_map == <<
    <<"g", "g">>, <<"gr", "g">>, <<"gramm", "g">>, <<"ml", "ml">>,
    <<"kg", "kg">>, <<"l", "l">>, <<"litr", "l">>, <<"wt", "wt">>,
    <<"wtuk", "wt">>, <<"st.l", "st.l.">>, <<"st l", "st.l.">>,
    <<"c.l", "c.l.">>, <<"c l", "c.l.">>, <<"stakan", "stakan">> >>

\* x.replace('.', '').replace(' ', '')
Fold(x) == Remove(Remove(x, "."), " ")

\* UnitLower without lower(): the comparison is case-sensitive
UnitLower_CaseSensitive(unit) == Fold(unit)

\* unit.lower().replace('.', '').replace(' ', '')
UnitLower(unit) == Fold(Lower(unit))

\* the keys of unit_map that equal unit_lower once folded, in order
UnitHits(unit_lower) ==
    SelectSeq(unit_map, LAMBDA kv : Fold(kv[1]) = unit_lower)

\* _normalize_unit returning unit_lower where it should return unit
_normalize_unit_ReturnsFolded(unit) ==
    LET hits == UnitHits(UnitLower(unit))
    IN  IF hits # <<>> THEN Head(hits)[2] ELSE UnitLower(unit)

_normalize_unit(unit) ==
    LET hits == UnitHits(UnitLower(unit))
    IN  IF hits # <<>> THEN Head(hits)[2] ELSE unit

-----------------------------------------------------------------------------
(* The per-item ingredient parser                                          *)

\* patterns[0] under re.match: the complete matches, in re's order
\* (\d+(?:[.,]\d+)?)\s*(unit)\.?\s*[–—-]?\s*(.+)
Pattern0Matches(text) ==
    FlatMap(NumEnds(text, 1), LAMBDA qe :
     FlatMap(WsEnds(text, qe), LAMBDA us :
      FlatMap(UnitEnds(text, us), LAMBDA ue :
       FlatMap(OptEnds(text, ue, {"."}), LAMBDA d :
        FlatMap(WsEnds(text, d), LAMBDA w :
         FlatMap(OptEnds(text, w, Dashes), LAMBDA h :
          FlatMap(WsEnds(text, h), LAMBDA ns :
            IF IsDot(Ch(text, ns))
            THEN << [quantity |-> Slice(text, 1, qe),
                     unit |-> Slice(text, us, ue),
                     name |-> Slice(text, ns, DotRunEnd(text, ns))] >>
            ELSE <<>> )))))))

\* patterns[1] under re.match
\* (.+?)\s*[–—-]\s*(\d+(?:[.,]\d+)?)\s*(unit)
Pattern1Matches(text) ==
    FlatMap(Up(2, DotRunEnd(text, 1)), LAMBDA ne :
     FlatMap(WsEnds(text, ne), LAMBDA w :
      FlatMap(OneEnds(text, w, Dashes), LAMBDA h :
       FlatMap(WsEnds(text, h), LAMBDA qs :
        FlatMap(NumEnds(text, qs), LAMBDA qe :
         FlatMap(WsEnds(text, qe), LAMBDA us :
          FlatMap(UnitEnds(text, us), LAMBDA ue :
            << [name |-> Slice(text, 1, ne),
                quantity |-> Slice(text, qs, qe),
                unit |-> Slice(text, us, ue)] >> )))))))

\* match.groups() of re.match(pattern, text, re.IGNORECASE), or None
ReMatch(matches) == IF matches = <<>> THEN None ELSE Head(matches)

\* FromGroups without quantity.replace(',', '.')
FromGroups_KeepsComma(g) ==
    [name |-> Strip(g.name),
     quantity |-> g.quantity,
     unit |-> _normalize_unit(Strip(g.unit))]

\* lines 190-198: the dictionary built from the groups of a match
FromGroups(g) ==
    [name |-> Strip(g.name),
     quantity |-> Replace(g.quantity, ",", "."),
     unit |-> _normalize_unit(Strip(g.unit))]

\* the patterns tried name-first before quantity-first
PatternsInOrder_Swapped(text) ==
    <<ReMatch(Pattern1Matches(text)), ReMatch(Pattern0Matches(text))>>

\* the for loop over patterns: the first pattern that matches decides
PatternsInOrder(text) == <<ReMatch(Pattern0Matches(text)), ReMatch(Pattern1Matches(text))>>

\* _parse_ingredient_string with len(text) > 3 for len(text) > 2
_parse_ingredient_string_Longer(text) ==
    LET found == SelectSeq(PatternsInOrder(text), LAMBDA m : m # None)
    IN  IF found # <<>> THEN FromGroups(Head(found))
        ELSE IF Len(text) > 3 THEN [name |-> text, quantity |-> "1", unit |-> "wt"]
        ELSE None

_parse_ingredient_string(text) ==
    LET found == SelectSeq(PatternsInOrder(text), LAMBDA m : m # None)
    IN  IF found # <<>> THEN FromGroups(Head(found))
        ELSE IF Len(text) > 2 THEN [name |-> text, quantity |-> "1", unit |-> "wt"]
        ELSE None

-----------------------------------------------------------------------------
(* The document.  self.soup is the sequence of the page's elements in      *)
(* document order.  An element has a tag, one class, an itemprop, for a    *)
(* meta tag its name, its property and its content attributes ("" for an   *)
(* attribute it does not have), the set of its ancestors, each a pair of   *)
(* tag and class (within), its own text node and its li/p children         *)
(* (items); a child is an element without items.                           *)
(* Tag, class and attribute names are written as in the source.            *)

Node(tag, class, itemprop, within, text, items) ==
    [tag |-> tag, class |-> class, itemprop |-> itemprop, name |-> "",
     property |-> "", content |-> "", within |-> within, text |-> text,
     items |-> items]

\* <li class=class>text</li> and <p class=class>text</p>
Li(class, text) == Node("li", class, "", {}, text, <<>>)
P(class, text) == Node("p", class, "", {}, text, <<>>)

\* <meta name=name property=property content=content>
Meta(name, property, content) ==
    [tag |-> "meta", class |-> "", itemprop |-> "", name |-> name,
     property |-> property, content |-> content, within |-> {}, text |-> "",
     items |-> <<>>]

\* the children of e, below e's ancestors and e
Children(e) ==
    [k \in 1..Len(e.items) |->
        [e.items[k] EXCEPT !.within = e.within \cup {<<e.tag, e.class>>}]]

\* every element of the page in document order
Descendants(page) == Flatten([k \in 1..Len(page) |-> <<page[k]>> \o Children(page[k])])

\* a CSS selector: tag.class[itemprop=..], alone (within is <<>>) or after
\* the descendant combinator and the <<tag, class>> asked of an ancestor;
\* "" asks nothing
Sel(tag, class, itemprop, within, first_of_type) ==
    [tag |-> tag, class |-> class, itemprop |-> itemprop, attribute |-> "",
     value |-> "", within |-> within, first_of_type |-> first_of_type]

\* the selector meta[attribute="value"], the attribute being name or
\* property
MetaSel(attribute, value) ==
    [tag |-> "meta", class |-> "", itemprop |-> "", attribute |-> attribute,
     value |-> value, within |-> <<>>, first_of_type |-> FALSE]

\* the elements before position k of es that are siblings of es[k] with its tag
EarlierOfType(es, k) ==
    {j \in 1..(k - 1) : es[j].tag = es[k].tag /\ es[j].within = es[k].within}

\* whether element k of es matches the selector
SelMatches(sel, es, k) ==
    LET e == es[k]
    IN  /\ sel.tag = "" \/ e.tag = sel.tag
        /\ sel.class = "" \/ e.class = sel.class
        /\ sel.itemprop = "" \/ e.itemprop = sel.itemprop
        /\ sel.attribute = "" \/ e[sel.attribute] = sel.value
        /\ \/ sel.within = <<>>
           \/ \E ancestor \in e.within :
                  /\ sel.within[1] = "" \/ ancestor[1] = sel.within[1]
                  /\ sel.within[2] = "" \/ ancestor[2] = sel.within[2]
        /\ sel.first_of_type => EarlierOfType(es, k) = {}

\* soup.select(selector), in document order
select(page, sel) ==
    LET es == Descendants(page)
        hit == SelectSeq(Up(1, Len(es)), LAMBDA k : SelMatches(sel, es, k))
    IN  [k \in 1..Len(hit) |-> es[hit[k]]]

\* soup.select_one(selector): <<element>> or <<>> for None
select_one(page, sel) ==
    LET found == select(page, sel) IN IF found = <<>> THEN <<>> ELSE <<Head(found)>>

\* the text nodes of an element, in order
TextNodes(e) == <<e.text>> \o [k \in 1..Len(e.items) |-> e.items[k].text]

RECURSIVE Join(_, _)
\* sep.join(ss)
Join(ss, sep) ==
    IF ss = <<>> THEN ""
    ELSE IF Len(ss) = 1 THEN Head(ss)
    ELSE Head(ss) \o sep \o Join(Tail(ss), sep)

\* element.get_text()
get_text(e) == Join(TextNodes(e), "")

\* get_text(strip=True) that leaves the whitespace around the text
get_text_strip_Unstripped(e) == Join(TextNodes(e), "")

\* element.get_text(strip=True): the stripped text nodes that are not empty
get_text_strip(e) ==
    LET stripped == [k \in 1..Len(TextNodes(e)) |-> Strip(TextNodes(e)[k])]
    IN  Join(SelectSeq(stripped, LAMBDA t : t # ""), "")

\* soup.get_text()
all_text(page) == Join([k \in 1..Len(page) |-> get_text(page[k])], "")

\* the first value of a sequence of attempts, each <<value>> or <<>>
FirstOf(attempts, default) ==
    LET got == Flatten(attempts) IN IF got = <<>> THEN default ELSE Head(got)

-----------------------------------------------------------------------------
(* The field extractors                                                    *)

\* str(d) and int(c) for one digit
DigitCh(d) == SubSeq("0123456789", d + 1, d + 1)
DigitVal(c) == CHOOSE d \in 0..9 : DigitCh(d) = c

RECURSIVE NatToStr(_)
\* str(n)
NatToStr(n) == IF n < 10 THEN DigitCh(n) ELSE NatToStr(n \div 10) \o DigitCh(n % 10)

RECURSIVE StrToNat(_)
\* int(s) of a string of digits
StrToNat(s) ==
    IF s = "" THEN 0
    ELSE StrToNat(Slice(s, 1, Len(s))) * 10 + DigitVal(Ch(s, Len(s)))

\* whether t occurs in s (re.search of a literal)
HasSubstring(s, t) == \E i \in 1..(Len(s) + 1) : Slice(s, i, i + Len(t)) = t

\* $ without re.MULTILINE: the end of the string, or before its last newline
AtDollar(s, i) == i = Len(s) + 1 \/ (i = Len(s) /\ Ch(s, i) = "\n")

\* \s*[|–-]\s*.+$ matched at position i: the ends of its matches, in order
TitleSuffixEnds(s, i) ==
    FlatMap(WsEnds(s, i), LAMBDA w :
     FlatMap(OneEnds(s, w, {"|", "~", "-"}), LAMBDA h :
      FlatMap(WsEnds(s, h), LAMBDA v :
       SelectSeq(Down(DotRunEnd(s, v), v + 1), LAMBDA e : AtDollar(s, e)))))

\* TitleSub that leaves the site suffix in place
TitleSub_KeepsSuffix(title) == title

\* re.sub(r'\s*[|–-]\s*.+$', '', title): the leftmost match is cut out; it
\* ends at the end of the title, so there is no second one
TitleSub(title) ==
    LET starts == SelectSeq(Up(1, Len(title)),
                            LAMBDA i : TitleSuffixEnds(title, i) # <<>>)
    IN  IF starts = <<>> THEN title
        ELSE Slice(title, 1, Head(starts))
                \o Slice(title, Head(TitleSuffixEnds(title, Head(starts))),
                         Len(title) + 1)

TitleSelectors == <<
    Sel("h1", "recipe-title", "", <<>>, FALSE),
    Sel("h1", "", "name", <<>>, FALSE),
    Sel("h1", "entry-title", "", <<>>, FALSE),
    Sel("h1", "", "", <<"", "recipe-header">>, FALSE),
    Sel("h1", "", "", <<"article", "">>, FALSE),
    Sel("h1", "", "", <<>>, FALSE) >>

\* lines 64-67: the text of the first selector that finds an element
TitleBySelector(page) ==
    [k \in 1..Len(TitleSelectors) |->
        LET element == select_one(page, TitleSelectors[k])
        IN  IF element # <<>> THEN <<get_text_strip(Head(element))>> ELSE <<>>]

\* lines 69-73: the title tag, its site suffix cut
TitleByTag(page) ==
    LET title_tag == select_one(page, Sel("title", "", "", <<>>, FALSE))
    IN  IF title_tag # <<>> THEN <<TitleSub(get_text_strip(Head(title_tag)))>>
        ELSE <<>>

\* "Рецепт без названия"
NoTitle == "Reqept bez nazvanij"

_extract_title(page) == FirstOf(TitleBySelector(page) \o <<TitleByTag(page)>>, NoTitle)

DescriptionSelectors == <<
    Sel("div", "recipe-description", "", <<>>, FALSE),
    Sel("div", "", "description", <<>>, FALSE),
    MetaSel("name", "description"),
    MetaSel("property", "og:description"),
    Sel("", "recipe-intro", "", <<>>, FALSE),
    Sel("p", "", "", <<"article", "">>, TRUE) >>

\* lines 88-96
DescriptionBySelector(page) ==
    [k \in 1..Len(DescriptionSelectors) |->
        LET selector == DescriptionSelectors[k]
            element == select_one(page, selector)
        IN  IF selector.tag = "meta"
            THEN IF element # <<>> /\ Head(element).content # ""
                 THEN <<Strip(Head(element).content)>> ELSE <<>>
            ELSE IF element # <<>> THEN <<get_text_strip(Head(element))>> ELSE <<>>]

\* lines 98-100: soup.find_all('p', limit=3)[0]
DescriptionByParagraph(page) ==
    LET paragraphs == select(page, Sel("p", "", "", <<>>, FALSE))
    IN  IF paragraphs # <<>> THEN <<get_text_strip(Head(paragraphs))>> ELSE <<>>

\* "Описание отсутствует"
NoDescription == "Opisanie otsutstvuet"

_extract_description(page) ==
    FirstOf(DescriptionBySelector(page) \o <<DescriptionByParagraph(page)>>,
            NoDescription)

InstructionsSelectors == <<
    Sel("div", "recipe-instructions", "", <<>>, FALSE),
    Sel("div", "", "recipeInstructions", <<>>, FALSE),
    Sel("ol", "recipe-steps", "", <<>>, FALSE),
    Sel("div", "instructions", "", <<>>, FALSE),
    Sel("", "recipe-directions", "", <<>>, FALSE) >>

\* lines 117-121: the steps of a container; enumerate(..., 1) numbers every
\* li/p of the container, kept or not
Steps(element) ==
    LET found == SelectSeq(Up(1, Len(element.items)),
                           LAMBDA i : Len(get_text_strip(element.items[i])) > 10)
    IN  [k \in 1..Len(found) |->
            NatToStr(found[k]) \o ". " \o get_text_strip(element.items[found[k]])]

\* lines 114-123
InstructionsBySelector(page) ==
    [k \in 1..Len(InstructionsSelectors) |->
        LET element == select_one(page, InstructionsSelectors[k])
        IN  IF element # <<>> /\ Steps(Head(element)) # <<>>
            THEN <<Join(Steps(Head(element)), "\n")>> ELSE <<>>]

\* (Приготовление|Инструкция|Способ приготовления) at position i
HeadingEnds(s, i) ==
    LitEnds(s, i, "prigotovlenie") \o LitEnds(s, i, "instrukqij")
        \o LitEnds(s, i, "sposob prigotovlenij")

RECURSIVE ColonSpaceRunEnd(_, _)
\* [:\s]+
ColonSpaceRunEnd(s, i) ==
    IF Ch(s, i) = ":" \/ IsSpace(Ch(s, i)) THEN ColonSpaceRunEnd(s, i + 1) ELSE i

\* (?=Ингредиенты|$)
AtIngredientsOrEnd(s, i) == LitEnds(s, i, "ingredienty") # <<>> \/ AtDollar(s, i)

\* the pattern of lines 126-130 matched at position i: group 2 of each match
InstructionsGroups(s, i) ==
    FlatMap(HeadingEnds(s, i), LAMBDA h :
     FlatMap(Down(ColonSpaceRunEnd(s, h), h + 1), LAMBDA v :
      FlatMap(SelectSeq(Up(v, Len(s) + 1), LAMBDA e : AtIngredientsOrEnd(s, e)),
              LAMBDA e : <<Slice(s, v, e)>>)))

\* lines 125-132: re.search, the leftmost match
InstructionsByText(page) ==
    LET text == all_text(page)
        starts == SelectSeq(Up(1, Len(text)),
                            LAMBDA i : InstructionsGroups(text, i) # <<>>)
    IN  IF starts = <<>> THEN <<>>
        ELSE <<Strip(Head(InstructionsGroups(text, Head(starts))))>>

\* "Инструкции отсутствуют"
NoInstructions == "Instrukqii otsutstvuht"

_extract_instructions(page) ==
    FirstOf(InstructionsBySelector(page) \o <<InstructionsByText(page)>>,
            NoInstructions)

IngredientSelectors == <<
    Sel("ul", "recipe-ingredients", "", <<>>, FALSE),
    Sel("ul", "", "recipeIngredient", <<>>, FALSE),
    Sel("ul", "", "", <<"div", "ingredients">>, FALSE),
    Sel("", "ingredient-list", "", <<>>, FALSE) >>

RECURSIVE ParseItems(_, _)
\* lines 150-155 and 160-165: the items whose text is not empty and parses
\* are appended to ingredients
ParseItems(items, ingredients) ==
    IF items = <<>> THEN ingredients
    ELSE LET text == get_text_strip(Head(items))
             parsed_item == IF text # "" THEN _parse_ingredient_string(text) ELSE None
         IN  ParseItems(Tail(items),
                        IF parsed_item # None THEN Append(ingredients, parsed_item)
                        ELSE ingredients)

\* element.find_all('li')
ListItems(element) == SelectSeq(element.items, LAMBDA e : e.tag = "li")

\* soup.find_all(['li', 'p'], class_=re.compile('ingredient'))
IngredientItems(page) ==
    SelectSeq(Descendants(page),
              LAMBDA e : e.tag \in {"li", "p"} /\ HasSubstring(e.class, "ingredient"))

\* lines 168-171
PlaceholderIngredients == <<
    [name |-> "Ingredient 1", quantity |-> "100", unit |-> "g"],
    [name |-> "Ingredient 2", quantity |-> "200", unit |-> "ml"] >>

\* IngredientsByClass without the placeholders of lines 167-171
IngredientsByClass_NoPlaceholders(page, ingredients) ==
    ParseItems(IngredientItems(page), ingredients)

\* lines 159-173: the scan by class, then the placeholders
IngredientsByClass(page, ingredients) ==
    LET scanned == ParseItems(IngredientItems(page), ingredients)
    IN  IF scanned = <<>> THEN PlaceholderIngredients ELSE scanned

RECURSIVE IngredientsBySelector_Accumulates(_, _, _)
\* the loop of lines 147-157 without the return of lines 156-157: every
\* selector and the scan by class add to the same list
IngredientsBySelector_Accumulates(page, k, ingredients) ==
    IF k > Len(IngredientSelectors) THEN IngredientsByClass(page, ingredients)
    ELSE LET element == select_one(page, IngredientSelectors[k])
         IN  IngredientsBySelector_Accumulates(page, k + 1,
                 IF element # <<>>
                 THEN ParseItems(ListItems(Head(element)), ingredients)
                 ELSE ingredients)

RECURSIVE IngredientsBySelector(_, _, _)
\* lines 147-157: the loop over the selectors from selector k on
IngredientsBySelector(page, k, ingredients) ==
    IF k > Len(IngredientSelectors) THEN IngredientsByClass(page, ingredients)
    ELSE LET element == select_one(page, IngredientSelectors[k])
             added == IF element # <<>>
                      THEN ParseItems(ListItems(Head(element)), ingredients)
                      ELSE ingredients
         IN  IF element # <<>> /\ added # <<>> THEN added
             ELSE IngredientsBySelector(page, k + 1, added)

_extract_ingredients(page) == IngredientsBySelector(page, 1, <<>>)

\* re.search(r'(\d+)', text): <<int(group 1)>> of the leftmost run of digits
FirstNumber(text) ==
    LET starts == SelectSeq(Up(1, Len(text)), LAMBDA i : IsDigit(Ch(text, i)))
    IN  IF starts = <<>> THEN <<>>
        ELSE <<StrToNat(Slice(text, Head(starts), DigitRunEnd(text, Head(starts))))>>

\* (\d+)\s*word matched at position i: group 1 of each match, in order
NumberBeforeAt(s, i, word) ==
    FlatMap(Down(DigitRunEnd(s, i), i + 1), LAMBDA d :
     FlatMap(WsEnds(s, d), LAMBDA w :
      IF Slice(s, w, w + Len(word)) = word THEN <<Slice(s, i, d)>> ELSE <<>>))

\* re.search(r'(\d+)\s*word', text), case-sensitive: <<int(group 1)>>
NumberBefore(text, word) ==
    LET starts == SelectSeq(Up(1, Len(text)),
                            LAMBDA i : NumberBeforeAt(text, i, word) # <<>>)
    IN  IF starts = <<>> THEN <<>>
        ELSE <<StrToNat(Head(NumberBeforeAt(text, Head(starts), word)))>>

\* the loop of lines 243-249 and 266-272
NumberBySelector(page, selectors) ==
    [k \in 1..Len(selectors) |->
        LET element == select_one(page, selectors[k])
        IN  IF element # <<>> THEN FirstNumber(get_text(Head(element))) ELSE <<>>]

CookingTimeSelectors == <<
    Sel("time", "", "totalTime", <<>>, FALSE),
    Sel("span", "cooking-time", "", <<>>, FALSE),
    Sel("", "recipe-time", "", <<>>, FALSE) >>

DefaultCookingTime == 30

\* _extract_cooking_time without the search of the page text (lines 251-254)
_extract_cooking_time_SelectorsOnly(page) ==
    FirstOf(NumberBySelector(page, CookingTimeSelectors), DefaultCookingTime)

_extract_cooking_time(page) ==
    FirstOf(NumberBySelector(page, CookingTimeSelectors)
                \o <<NumberBefore(all_text(page), "min")>>,
            DefaultCookingTime)

ServingsSelectors == <<
    Sel("span", "", "recipeYield", <<>>, FALSE),
    Sel("", "recipe-servings", "", <<>>, FALSE),
    Sel("", "servings", "", <<>>, FALSE) >>

DefaultServings == 4

_extract_servings(page) ==
    FirstOf(NumberBySelector(page, ServingsSelectors)
                \o <<NumberBefore(all_text(page), "porq")>>,
            DefaultServings)

-----------------------------------------------------------------------------
(* Inputs of the two pure functions                                        *)

\* How many characters of a spelling an input may change.
MaxEdits == 2

\* Longest line of the exhaustive part of the line inputs.
MaxLineLen == 4

\* every string s with position i (1 .. Len(s)+1) given the character c
InsertAt(s, i, c) == Slice(s, 1, i) \o c \o Slice(s, i, Len(s) + 1)

\* s with the letter at position i in upper case
UpperAt(s, i) ==
    LET c == Ch(s, i)
        up == IF c \in LowerLetters
              THEN CHOOSE C \in UpperLetters : LowerCh(C) = c
              ELSE c
    IN  Slice(s, 1, i) \o up \o Slice(s, i + 1, Len(s) + 1)

\* one change of spelling: a period or a space put anywhere, a letter capitalised
OneEdit(s) ==
    {InsertAt(s, i, c) : i \in 1..(Len(s) + 1), c \in {".", " "}}
        \cup {UpperAt(s, i) : i \in 1..Len(s)}

RECURSIVE Edited(_, _)
\* the spellings at most n changes away from those of S
Edited(S, n) ==
    IF n = 0 THEN S
    ELSE LET T == Edited(S, n - 1) IN T \cup UNION {OneEdit(s) : s \in T}

\* the keys and values of unit_map, and spellings that are neither
UnitSpellings ==
    {unit_map[k][1] : k \in 1..Len(unit_map)}
        \cup {unit_map[k][2] : k \in 1..Len(unit_map)}
        \cup {"", "stakana", "wtuki", "litra", "kgm", "st\tl", "puhok"}

UnitInputs == Edited(UnitSpellings, MaxEdits)

LineAlphabet == {"2", ",", ".", " ", "g", "l", "-", "m"}

RECURSIVE Strings(_, _)
\* the strings over A of length at most n
Strings(A, n) ==
    IF n = 0 THEN {""}
    ELSE LET T == Strings(A, n - 1) IN T \cup {t \o c : t \in T, c \in A}

Numbers == {"2", "500", "500,5", "0.5"}
Gaps == {"", " "}
UnitWords == {"g", "G", "gr", "ml", "kg", "l", "litra", "wt", "wtuk", "wtuki",
              "st.l.", "st. l", "St.L", "st\tl", "c.l.", "stakan", "stakana"}
Separators == {"", " ", ". ", " - ", "~", " = "}
Names == {"", " ", "i", "muki", "muki ", "muki - 2 wt"}

\* <number><unit>[separator]<name>
QuantityFirstLines ==
    {n \o a \o u \o b \o r :
        n \in Numbers, a \in Gaps, u \in UnitWords, b \in Separators, r \in Names}

\* <name><separator><number><unit>
NameFirstLines ==
    {r \o b \o n \o a \o u :
        r \in {"Sol", "sok limona", "500 g muki"}, b \in {" - ", "~", " = ", " "},
        n \in Numbers, a \in Gaps, u \in UnitWords}

\* the lines of the documentation and of recipes/tests.py
ExampleLines == {"500,5 g muki", "500 g muki", "Sol - 1 c.l.", "Sol ~ 1 c.l.",
                 "500 g svekly", "i", "2 lukoviqy", "2 litra moloka"}

LineInputs ==
    Strings(LineAlphabet, MaxLineLen) \cup QuantityFirstLines
        \cup NameFirstLines \cup ExampleLines

-----------------------------------------------------------------------------
(* Each specification exercises one part of the program; the variables of  *)
(* the other parts stay as these predicates leave them.                    *)

IdlePure ==
    /\ unitIn = ""
    /\ unitOut = NotRun
    /\ line = ""
    /\ parsed = NotRun

IdleDirect == extracted = <<>>

IdlePair ==
    /\ parsers = <<>>
    /\ soups = <<>>

IdleSite ==
    /\ Recipe_objects = {}
    /\ Ingredient_objects = {}
    /\ RecipeIngredient_objects = {}
    /\ ShoppingList_objects = {}
    /\ id_seq = [Recipe |-> 0, Ingredient |-> 0, RecipeIngredient |-> 0,
                 ShoppingList |-> 0]
    /\ inflight = EmptyBag
    /\ http = None

IdleParser ==
    /\ pc = "idle"
    /\ calls = 0
    /\ response = None
    /\ soup = None
    /\ fetches = 0
    /\ ran = <<>>
    /\ recipe_data = None
    /\ result = NotRun

(* SpecUnit: one call of _normalize_unit on an input of UnitInputs.        *)

InitUnit ==
    /\ unitIn \in UnitInputs
    /\ unitOut = NotRun
    /\ line = ""
    /\ parsed = NotRun
    /\ IdleParser
    /\ IdleDirect /\ IdlePair /\ IdleSite

NormalizeUnit ==
    /\ unitOut = NotRun
    /\ unitOut' = Returned(_normalize_unit(unitIn))
    /\ UNCHANGED <<unitIn, line, parsed, pc, calls, response, soup, fetches,
                   ran, recipe_data, result>>
    /\ UNCHANGED <<directVars, pairVars, siteVars>>

NextUnit == NormalizeUnit

SpecUnit == InitUnit /\ [][NextUnit]_vars

(* SpecIngr: one call of _parse_ingredient_string on a line of LineInputs. *)

InitIngr ==
    /\ line \in LineInputs
    /\ parsed = NotRun
    /\ unitIn = ""
    /\ unitOut = NotRun
    /\ IdleParser
    /\ IdleDirect /\ IdlePair /\ IdleSite

ParseIngredientString ==
    /\ parsed = NotRun
    /\ parsed' = Returned(_parse_ingredient_string(line))
    /\ UNCHANGED <<unitIn, unitOut, line, pc, calls, response, soup, fetches,
                   ran, recipe_data, result>>
    /\ UNCHANGED <<directVars, pairVars, siteVars>>

NextIngr == ParseIngredientString

SpecIngr == InitIngr /\ [][NextIngr]_vars

-----------------------------------------------------------------------------
(* Spec: parse_recipe on one parser instance, invoked again after a failed *)
(* parse, up to MaxCalls times.  The page the server answers with is       *)
(* drawn, element by element, from PageElements.                           *)

\* How many elements a page has at most.
MaxElems == 2

\* How many times parse_recipe is invoked.
MaxCalls == 2

PageElements == {
    Node("h1", "recipe-title", "", {}, "Borx", <<>>),
    Node("h1", "", "", {<<"article", "">>}, "  ", <<>>),
    Node("title", "", "", {}, "Borx reqept | KukSajt", <<>>),
    Node("title", "", "", {}, "- Sajt", <<>>),
    Node("ul", "recipe-ingredients", "", {}, "",
         <<Li("", "500 g muki"), Li("", "i"), Li("", "Sol ~ 1 c.l.")>>),
    Node("ul", "recipe-ingredients", "", {}, "", <<Li("", "i"), Li("", " ")>>),
    Node("ul", "ingredient-list", "", {}, "", <<Li("", "2 stakana moloka")>>),
    Node("ul", "", "", {}, "",
         <<Li("ingredient", " 0,5 l moloka "), Li("", "sol")>>),
    P("ingredient", "i"),
    Node("div", "recipe-description", "", {}, "Sup iz svekly", <<>>),
    Node("span", "cooking-time", "", {}, "45 min", <<>>) }

\* The document of the end-to-end example of the documentation: the title
\* tag "Борщ рецепт | CookSite" (the Latin site name is written KukSajt; no
\* pattern of the source matches inside either spelling), no structured
\* markup, the body texts "Время приготовления: 45 мин" and "4 порции" and
\* the list <ul class="ingredient-list"> of "500 г свеклы" and "Соль – 1 ч.л.".
ExampleTitle == Node("title", "", "", {}, "Borx reqept | KukSajt", <<>>)
ExampleList ==
    Node("ul", "ingredient-list", "", {}, "",
         <<Li("", "500 g svekly"), Li("", "Sol ~ 1 c.l.")>>)
ExampleTime == "Vremj prigotovlenij: 45 min"
ExampleServings == "4 porqii"

\* The example document with its body in every order, the two texts in
\* elements of their own or in one, in p or in div elements.
ExamplePages ==
    UNION {
        LET apart == {Node(tag, "", "", {}, ExampleTime, <<>>),
                      Node(tag, "", "", {}, ExampleServings, <<>>), ExampleList}
            joined == {Node(tag, "", "", {}, ExampleTime \o ", " \o ExampleServings,
                            <<>>), ExampleList}
        IN  {<<ExampleTitle>> \o q :
                q \in {q \in [1..3 -> apart] : \A i, j \in 1..3 : q[i] = q[j] => i = j}}
            \cup {<<ExampleTitle>> \o q :
                q \in {q \in [1..2 -> joined] : q[1] # q[2]}}
        : tag \in {"p", "div"}}

\* Pages with a title whose description or instructions markup is there but
\* holds no text: an empty description div, a blank first paragraph, a blank
\* meta description, a "Приготовление:" heading with nothing before
\* "Ингредиенты", and an instructions container with one step.
EmptyFieldPages ==
    LET h1 == Node("h1", "", "", {}, "Borx", <<>>)
    IN  { <<h1, Node("div", "recipe-description", "", {}, "", <<>>)>>,
          <<h1, P("", "  ")>>,
          <<h1, Meta("description", "", "  ")>>,
          <<h1, P("", "Prigotovlenie: Ingredienty: sol")>>,
          <<h1, Node("div", "recipe-instructions", "", {}, "",
                     <<P("", "Narezat sveklu i morkovf"), Li("", "Varit")>>)>> }

RECURSIVE Pages(_)
\* the pages of at most n elements
Pages(n) ==
    IF n = 0 THEN {<<>>}
    ELSE LET T == Pages(n - 1) IN T \cup {Append(t, e) : t \in T, e \in PageElements}

\* What one requests.get and the parse of its content can meet: an exception
\* of requests.get, or a status code and a body that BeautifulSoup parses or
\* raises on.
Answer(raised, status, parses, content) ==
    [raised |-> raised, status |-> status, parses |-> parses, content |-> content]

Responses ==
    {Answer(e, 0, FALSE, <<>>) : e \in {"ConnectionError", "Timeout"}}
        \cup {Answer("", c, TRUE, <<>>) : c \in {304, 404, 500}}
        \cup {Answer("", 200, FALSE, <<>>)}
        \cup {Answer("", 200, TRUE, d) : d \in Pages(MaxElems)}
        \cup {Answer("", 200, TRUE, d) : d \in ExamplePages}
        \cup {Answer("", 200, TRUE, d) : d \in EmptyFieldPages}

\* response.raise_for_status() raises
RaisesForStatus(status) == status >= 400 /\ status < 600

\* fetch_page without response.raise_for_status()
fetch_page_AnyStatus(r) == r.raised = "" /\ r.parses

\* fetch_page(): whether the try block of lines 22-26 ends without exception
fetch_page(r) == r.raised = "" /\ ~RaisesForStatus(r.status) /\ r.parses

\* self.soup holding a document
Soup(page) == [page |-> page]

Init ==
    /\ pc = "idle"
    /\ calls = 0
    /\ response = None
    /\ soup = None
    /\ fetches = 0
    /\ ran = <<>>
    /\ recipe_data = None
    /\ result = NotRun
    /\ unitIn = ""
    /\ unitOut = NotRun
    /\ line = ""
    /\ parsed = NotRun
    /\ IdleDirect /\ IdlePair /\ IdleSite

\* the caller invokes parse_recipe(), again after a parse that failed
ParseRecipe ==
    /\ pc = "idle" \/ (pc = "returned" /\ result = Returned(None))
    /\ calls < MaxCalls
    /\ calls' = calls + 1
    /\ pc' = "fetch_page"
    /\ response' = None
    /\ fetches' = 0
    /\ ran' = <<>>
    /\ recipe_data' = None
    /\ result' = NotRun
    /\ UNCHANGED <<soup, unitIn, unitOut, line, parsed>>
    /\ UNCHANGED <<directVars, pairVars, siteVars>>

\* lines 36-37: if not self.fetch_page(): return None
FetchPage ==
    /\ pc = "fetch_page"
    /\ \E r \in Responses :
        /\ response' = r
        /\ fetches' = fetches + 1
        /\ IF fetch_page(r)
           THEN /\ soup' = Soup(r.content)
                /\ pc' = "_extract_title"
                /\ result' = result
           ELSE /\ soup' = soup
                /\ pc' = "returned"
                /\ result' = Returned(None)
    /\ UNCHANGED <<calls, ran, recipe_data, unitIn, unitOut, line, parsed>>
    /\ UNCHANGED <<directVars, pairVars, siteVars>>

\* one entry of the dictionary of lines 39-46 is computed
Extract(at, key, value, next) ==
    /\ pc = at
    /\ recipe_data' = IF recipe_data = None THEN key :> value
                      ELSE recipe_data @@ (key :> value)
    /\ ran' = Append(ran, at)
    /\ pc' = next
    /\ UNCHANGED <<calls, response, soup, fetches, result, unitIn, unitOut,
                   line, parsed>>
    /\ UNCHANGED <<directVars, pairVars, siteVars>>

ExtractTitle ==
    Extract("_extract_title", "title", _extract_title(soup.page),
            "_extract_description")

ExtractDescription ==
    Extract("_extract_description", "description", _extract_description(soup.page),
            "_extract_instructions")

ExtractInstructions ==
    Extract("_extract_instructions", "instructions",
            _extract_instructions(soup.page), "_extract_ingredients")

ExtractIngredients ==
    Extract("_extract_ingredients", "ingredients", _extract_ingredients(soup.page),
            "_extract_cooking_time")

ExtractCookingTime ==
    Extract("_extract_cooking_time", "cooking_time",
            _extract_cooking_time(soup.page), "_extract_servings")

ExtractServings ==
    Extract("_extract_servings", "servings", _extract_servings(soup.page),
            "check_title")

\* parse_recipe returning the dictionary whatever its title
ReturnValue_Unchecked(data) == data

\* lines 48-51: None for a dictionary without title, else the dictionary
ReturnValue(data) == IF data.title = "" THEN None ELSE data

\* parse_recipe() from call to return on an instance of its own, given what
\* requests.get meets
parse_recipe(r) ==
    IF ~fetch_page(r) THEN None
    ELSE ReturnValue([title |-> _extract_title(r.content),
                      description |-> _extract_description(r.content),
                      instructions |-> _extract_instructions(r.content),
                      ingredients |-> _extract_ingredients(r.content),
                      cooking_time |-> _extract_cooking_time(r.content),
                      servings |-> _extract_servings(r.content)])

Return ==
    /\ pc = "check_title"
    /\ result' = Returned(ReturnValue(recipe_data))
    /\ pc' = "returned"
    /\ UNCHANGED <<calls, response, soup, fetches, ran, recipe_data, unitIn,
                   unitOut, line, parsed>>
    /\ UNCHANGED <<directVars, pairVars, siteVars>>

Next ==
    \/ ParseRecipe
    \/ FetchPage
    \/ ExtractTitle
    \/ ExtractDescription
    \/ ExtractInstructions
    \/ ExtractIngredients
    \/ ExtractCookingTime
    \/ ExtractServings
    \/ Return

Spec == Init /\ [][Next]_vars

-----------------------------------------------------------------------------
(* SpecPair: two RecipeParserService instances, as two requests of         *)
(* parse_recipe_view construct them, each running parse_recipe once; their *)
(* steps interleave in any order.  A step is the fetch, one extractor, the *)
(* selector loop of _extract_ingredients (which leaves its accumulator in  *)
(* the frame), the rest of _extract_ingredients, or the return.            *)

Instances == {1, 2}

\* How many elements a page of SpecPair has at most.
MaxPairElems == 1

PairElements == {
    Node("h1", "recipe-title", "", {}, "Borx", <<>>),
    Node("title", "", "", {}, "Plov ~ Sajt", <<>>),
    Node("ul", "recipe-ingredients", "", {}, "",
         <<Li("", "500 g muki"), Li("", "i")>>),
    P("ingredient", "2 l vody") }

RECURSIVE PairPages(_)
\* the pages of at most n elements of PairElements
PairPages(n) ==
    IF n = 0 THEN {<<>>}
    ELSE LET T == PairPages(n - 1)
         IN  T \cup {Append(t, e) : t \in T, e \in PairElements}

PairResponses ==
    {Answer("", 404, TRUE, <<>>)}
        \cup {Answer("", 200, TRUE, d) : d \in PairPages(MaxPairElems)}
        \cup {Answer("", 200, TRUE, <<ExampleTitle, ExampleList>>),
              Answer("", 200, TRUE, <<ExampleList, ExampleTitle>>)}

\* self.soup under one attribute of the class, shared by every instance
self_soup_ClassAttribute(i) == 1

\* self.soup: an attribute of the instance, set in __init__ (line 15)
self_soup(i) == i

\* __init__ and the call of parse_recipe (views.py lines 151-152)
NewParser ==
    [pc |-> "fetch_page", response |-> None, recipe_data |-> None,
     ingredients |-> None, result |-> NotRun]

InitPair ==
    /\ parsers = [i \in Instances |-> NewParser]
    /\ soups = [i \in Instances |-> None]
    /\ IdlePure /\ IdleParser /\ IdleDirect /\ IdleSite

\* instance i moves to the frame f, its soup attribute is given the value s
PairStep(i, f, s) ==
    /\ parsers' = [parsers EXCEPT ![i] = f]
    /\ soups' = [soups EXCEPT ![self_soup(i)] = s]
    /\ UNCHANGED <<pureVars, parserVars, directVars, siteVars>>

\* lines 36-37 and 20-29
PairFetchPage(i) ==
    /\ parsers[i].pc = "fetch_page"
    /\ \E r \in PairResponses :
        IF fetch_page(r)
        THEN PairStep(i, [parsers[i] EXCEPT !.response = r, !.pc = "_extract_title"],
                      Soup(r.content))
        ELSE PairStep(i, [parsers[i] EXCEPT !.response = r, !.pc = "returned",
                                            !.result = Returned(None)],
                      soups[self_soup(i)])

\* one entry of the dictionary of lines 39-46, read from self.soup
PairExtract(i, at, key, value, next) ==
    /\ parsers[i].pc = at
    /\ PairStep(i, [parsers[i] EXCEPT
                        !.recipe_data = IF @ = None THEN key :> value
                                        ELSE @ @@ (key :> value),
                        !.pc = next],
                soups[self_soup(i)])

PairExtractTitle(i) ==
    PairExtract(i, "_extract_title", "title",
                _extract_title(soups[self_soup(i)].page), "_extract_description")

PairExtractDescription(i) ==
    PairExtract(i, "_extract_description", "description",
                _extract_description(soups[self_soup(i)].page), "_extract_instructions")

PairExtractInstructions(i) ==
    PairExtract(i, "_extract_instructions", "instructions",
                _extract_instructions(soups[self_soup(i)].page), "_extract_ingredients")

RECURSIVE IngredientsLoop(_, _, _)
\* lines 147-157: the loop over the selectors from selector k on; whether it
\* returned, and the accumulator
IngredientsLoop(page, k, ingredients) ==
    IF k > Len(IngredientSelectors)
    THEN [returned |-> FALSE, ingredients |-> ingredients]
    ELSE LET element == select_one(page, IngredientSelectors[k])
             added == IF element # <<>>
                      THEN ParseItems(ListItems(Head(element)), ingredients)
                      ELSE ingredients
         IN  IF element # <<>> /\ added # <<>>
             THEN [returned |-> TRUE, ingredients |-> added]
             ELSE IngredientsLoop(page, k + 1, added)

\* lines 138-157: a new accumulator, the loop over the selectors
PairIngredientsLoop(i) ==
    /\ parsers[i].pc = "_extract_ingredients"
    /\ LET loop == IngredientsLoop(soups[self_soup(i)].page, 1, <<>>)
       IN  IF loop.returned
           THEN PairStep(i, [parsers[i] EXCEPT
                                !.recipe_data = @ @@ ("ingredients" :> loop.ingredients),
                                !.pc = "_extract_cooking_time"],
                         soups[self_soup(i)])
           ELSE PairStep(i, [parsers[i] EXCEPT !.ingredients = loop.ingredients,
                                               !.pc = "ingredient_items"],
                         soups[self_soup(i)])

\* lines 159-173: the scan by class into the accumulator, the placeholders
PairIngredientsByClass(i) ==
    /\ parsers[i].pc = "ingredient_items"
    /\ PairStep(i, [parsers[i] EXCEPT
                        !.recipe_data = @ @@ ("ingredients" :>
                            IngredientsByClass(soups[self_soup(i)].page,
                                               parsers[i].ingredients)),
                        !.ingredients = None,
                        !.pc = "_extract_cooking_time"],
                soups[self_soup(i)])

PairExtractCookingTime(i) ==
    PairExtract(i, "_extract_cooking_time", "cooking_time",
                _extract_cooking_time(soups[self_soup(i)].page), "_extract_servings")

PairExtractServings(i) ==
    PairExtract(i, "_extract_servings", "servings",
                _extract_servings(soups[self_soup(i)].page), "check_title")

\* lines 48-51
PairReturn(i) ==
    /\ parsers[i].pc = "check_title"
    /\ PairStep(i, [parsers[i] EXCEPT
                        !.result = Returned(ReturnValue(parsers[i].recipe_data)),
                        !.pc = "returned"],
                soups[self_soup(i)])

NextPair ==
    \E i \in Instances :
        \/ PairFetchPage(i)
        \/ PairExtractTitle(i)
        \/ PairExtractDescription(i)
        \/ PairExtractInstructions(i)
        \/ PairIngredientsLoop(i)
        \/ PairIngredientsByClass(i)
        \/ PairExtractCookingTime(i)
        \/ PairExtractServings(i)
        \/ PairReturn(i)

SpecPair == InitPair /\ [][NextPair]_vars

\* an instance has returned the result its invocation returns when run alone
ReturnsAsAlone(i) ==
    parsers[i].pc = "returned" =>
        parsers[i].result = Returned(parse_recipe(parsers[i].response))

\* a step of one instance leaves the frame and the document of the other
\* as they were
OwnStateOnly ==
    \A i, j \in Instances :
        (i # j /\ parsers'[i] # parsers[i]) =>
            /\ parsers'[j] = parsers[j]
            /\ soups'[j] = soups[j]

\* C16: parse invocations share no mutable state: however the steps of two
\* instances interleave, each returns exactly what it returns when run
\* alone, its document is the one it fetched itself, and no step of one
\* instance changes the document, the accumulator or the dictionary of the
\* other.
C16_IndependentInstances ==
    /\ [](\A i \in Instances :
            /\ ReturnsAsAlone(i)
            /\ (parsers[i].response # None /\ fetch_page(parsers[i].response)) =>
                   soups[i] = Soup(parsers[i].response.content))
    /\ [][OwnStateOnly]_vars

\* instance 2 fetched its page after instance 1 fetched a different one and
\* before instance 1 read it: instance 1 has returned its own record while
\* instance 2 holds its accumulator between the two halves of
\* _extract_ingredients
C16_Witness ==
    /\ parsers[1].pc = "returned"
    /\ parsers[1].result # Returned(None)
    /\ parsers[1].result.value.title = "Borx reqept"
    /\ parsers[2].pc = "ingredient_items"
    /\ parsers[2].recipe_data.title = "Plov"
    /\ soups[1] # soups[2]

-----------------------------------------------------------------------------
(* The site: the tables of recipes/models.py and the views of              *)
(* recipes/views.py and recipes/api_views.py.  A table is the set of its   *)
(* rows, each with the key its sequence gave it.  No view opens a          *)
(* transaction, so a statement a view runs on the database is committed    *)
(* when it is run (Django's autocommit); the exceptions are the            *)
(* transactions Django opens itself: Model.delete() of a row that rows of  *)
(* other tables refer to runs its DELETE statements and then the COMMIT,   *)
(* QuerySet.delete() its DELETE and then the COMMIT, and the create of     *)
(* get_or_create its INSERT and then the COMMIT.  A request is in flight   *)
(* between its statements, and a step of the model is one statement of one *)
(* request together with the code that follows it up to the next statement *)
(* or the response.  What a view does before its first statement (the      *)
(* session, the method, the posted form) reads nothing a request writes    *)
(* and is taken together with that statement.                              *)
(* The database is PostgreSQL (db_service.py 5) at its default isolation   *)
(* level: a statement reads what is committed when it begins.  The tables  *)
(* hold the committed rows: the rows a transaction has deleted are stored, *)
(* and read by the others, until it commits, and the row it has inserted   *)
(* is stored when it commits; both are kept with the request in flight.  A *)
(* statement of another request that writes a row being deleted, or stores *)
(* a row that refers to it or has the unique key of a row being deleted or *)
(* inserted, waits until the transaction has ended.  A statement that      *)
(* waits has begun: an INSERT has drawn the key of its row from the        *)
(* sequence, and an UPDATE or DELETE has found the rows it writes, those   *)
(* committed when it began; when it goes on it writes those of them that   *)
(* are still stored, and none committed since.  The request is then in     *)
(* flight at the statement, with the row or with the keys of the rows      *)
(* still to come.  Only a statement that draws no key and finds no rows,   *)
(* the INSERT of a row under the key it has, is taken when its wait is     *)
(* over.  The foreign keys Django declares are checked when a transaction  *)
(* commits; the INSERT of a statement committed on its own has stored its  *)
(* row, uncommitted, when that check has to wait.  Two transactions that   *)
(* wait for each other stay in flight: the database's deadlock detection   *)
(* is not modelled.                                                        *)
(* http is the response the step has sent, None when it has sent none.     *)
(* The admin site, for which recipes/admin.py registers the four tables,   *)
(* and the registration of users (users/views.py) are not modelled.        *)

Users == {"anna", "boris"}

\* request.user of a request without a session
AnonymousUser == "AnonymousUser"

\* A response: its status, the template rendered or the name of the route
\* redirected to, the form in the context (None, or whether it is bound to
\* posted data, its class and the instance data it is filled with), the
\* messages queued for the user, and the request it answers.
Response(request, status, template, redirect, form, messages) ==
    [request |-> request, status |-> status, template |-> template,
     redirect |-> redirect, form |-> form, messages |-> messages]

\* a form of the given class in the context of a template
Form(class, bound, initial) == [class |-> class, bound |-> bound, initial |-> initial]

\* @login_required: the redirect to the login page
LoginRedirect(request) == Response(request, 302, "", "login", None, <<>>)

\* an exception no handler catches: Django answers 500
ServerError(request, exception) ==
    Response(request, 500, "", "", None, <<[level |-> "exception", text |-> exception]>>)

\* Http404
NotFound(request) == Response(request, 404, "", "", None, <<>>)

\* a message of messages.success, and the body of a REST answer
ShopMessage(text) == [level |-> "success", text |-> text]

\* How many keys the database hands out to Recipe rows, which caps the
\* Recipe rows the requests may store.
MaxRecipes == 2

\* How many keys the sequence of the Ingredient table hands out.
MaxIngredients == 2

\* How many keys the sequence of the RecipeIngredient table hands out.
MaxLinks == 3

\* How many keys the sequence of the ShoppingList table hands out.
MaxEntries == 2

\* How many requests may be in flight at once.
MaxInflight == 2

\* the views of recipes/views.py
WebViews == {"RecipeCreateView", "RecipeUpdateView", "RecipeDeleteView",
             "add_ingredient_to_recipe", "remove_ingredient_from_recipe",
             "parse_recipe_view", "add_to_shopping_list",
             "remove_from_shopping_list", "clear_shopping_list",
             "shopping_list_view"}

\* the tables
Tables == <<Recipe_objects, Ingredient_objects, RecipeIngredient_objects,
            ShoppingList_objects>>

\* the variables no view touches
otherVars == <<pureVars, parserVars, directVars, pairVars>>

\* a row of RecipeIngredient
Link(pk, recipe, ingredient, quantity) ==
    [pk |-> pk, recipe |-> recipe, ingredient |-> ingredient, quantity |-> quantity]

\* a row of ShoppingList
Entry(pk, user, recipe) == [pk |-> pk, user |-> user, recipe |-> recipe]

\* the keys of the rows of a table
Pks(rows) == {row.pk : row \in rows}

\* queryset.get(pk=pk) on a set of rows: <<row>> or <<>>
get(rows, pk) ==
    IF \E row \in rows : row.pk = pk THEN <<CHOOSE row \in rows : row.pk = pk>>
    ELSE <<>>

\* Recipe.objects.filter(author=self.request.user) (views.py 81, 102) and
\* get_object_or_404(Recipe, pk=pk, author=request.user) (112, 133)
AuthoredBy(user) == {recipe \in Recipe_objects : recipe.author = user}

\* the rows a view looks its recipe up in: the user's own for the views of
\* views.py that change a recipe, every row for the shopping-list views
\* (views.py 193, 202) and Recipe.objects.all() for the RecipeViewSet
\* (api_views.py 28)
QuerysetOf(request) ==
    IF request.view \in {"RecipeUpdateView", "RecipeDeleteView",
                         "add_ingredient_to_recipe", "remove_ingredient_from_recipe"}
    THEN AuthoredBy(request.user)
    ELSE Recipe_objects

\* the rows of RecipeIngredient of a recipe and an ingredient
LinksOfPair(recipe, ingredient) ==
    {link \in RecipeIngredient_objects :
        link.recipe = recipe /\ link.ingredient = ingredient}

\* the rows of ShoppingList of a user and a recipe
EntriesOf(user, recipe) ==
    {entry \in ShoppingList_objects : entry.user = user /\ entry.recipe = recipe}

\* the rows of Ingredient with a name
Named(rows, name) == {row \in rows : row.name = name}

\* the sequence of a table hands out its next key, whether or not the
\* INSERT that asked for it stores a row
nextval(table) == id_seq' = [id_seq EXCEPT ![table] = @ + 1]

\* a request in flight: where it is and the locals its view holds
Frame(request, at, locals) == [request |-> request, pc |-> at, locals |-> locals]

\* the requests in flight at one of the places
At(pcs) == {frame \in BagToSet(inflight) : frame.pc \in pcs}

\* a request is taken up and is in flight after its first statement
Starts(frame) == inflight' = inflight (+) SetToBag({frame}) /\ http' = None

\* a request in flight goes on to its next statement
GoesOn(frame, next) ==
    /\ inflight' = (inflight (-) SetToBag({frame})) (+) SetToBag({next})
    /\ http' = None

\* a request in flight is answered
Ends(frame, sent) == inflight' = inflight (-) SetToBag({frame}) /\ http' = sent

\* a request is answered by the step that took it up, which wrote nothing
Declined(sent) == http' = sent /\ UNCHANGED <<Tables, id_seq, inflight>>

\* the answer to a request without credentials: the login redirect of
\* LoginRequiredMixin and @login_required, or the 401 / 403 of the
\* permission classes of the REST framework
Unauthenticated(request) ==
    IF request.view \in WebViews THEN Declined(LoginRedirect(request))
    ELSE \E status \in {401, 403} :
             Declined(Response(request, status, "", "", None, <<>>))

-----------------------------------------------------------------------------
(* Transactions and constraints                                            *)

\* where the requests are that run a transaction that deletes:
\* Model.delete() of a Recipe and of an Ingredient, and QuerySet.delete()
\* of the rows of a shopping list, from its first DELETE to its COMMIT
TransactionPcs ==
    {"delete_recipe_links", "delete_recipe_links_waits", "delete_recipe_entries",
     "delete_recipe_entries_waits", "delete_recipe_row", "delete_recipe_row_waits",
     "commit_recipe", "delete_ingredient_links", "delete_ingredient_links_waits",
     "delete_ingredient_row", "delete_ingredient_row_waits", "commit_ingredient",
     "delete_items", "delete_items_waits", "commit_delete_items", "clear_waits",
     "commit_clear"}

\* the keys a transaction has deleted, by table, when it starts
NothingDeleted ==
    [Recipe |-> {}, Ingredient |-> {}, RecipeIngredient |-> {}, ShoppingList |-> {}]

\* the keys of the rows of a table that the transactions of the other
\* requests in flight have deleted and not committed; frame is None for a
\* request that is being taken up
HeldBeside(frame, table) ==
    UNION {other.locals.deleted[table] :
              other \in {other \in BagToSet(inflight (-) SetToBag({frame})) :
                            other.pc \in TransactionPcs}}

\* whether a statement of the request that stores a row has to wait for
\* the rows with the keys
RowsHeld(frame, table, pks) == pks \cap HeldBeside(frame, table) # {}

\* where the requests are whose UPDATE or DELETE has begun and waits for a
\* row another transaction has deleted, and the table of the statement:
\* the local pending holds the keys of the rows the statement found when
\* it began and has not written yet, in the order it comes upon them
WaitingPcs ==
    [save_link_waits |-> "RecipeIngredient", delete_link_waits |-> "RecipeIngredient",
     save_recipe_waits |-> "Recipe", delete_recipe_links_waits |-> "RecipeIngredient",
     delete_recipe_entries_waits |-> "ShoppingList",
     delete_recipe_row_waits |-> "Recipe", delete_items_waits |-> "ShoppingList",
     clear_waits |-> "ShoppingList", delete_item_waits |-> "ShoppingList",
     save_item_waits |-> "ShoppingList", save_ingredient_waits |-> "Ingredient",
     delete_ingredient_links_waits |-> "RecipeIngredient",
     delete_ingredient_row_waits |-> "Ingredient"]

\* the orders an UPDATE or DELETE may come upon the rows with the keys in:
\* the database does not say which
ScanOrders(pks) ==
    {order \in [1..Cardinality(pks) -> pks] :
        \A i, j \in DOMAIN order : i # j => order[i] # order[j]}

\* the keys of a sequence
Keys(pending) == {pending[i] : i \in DOMAIN pending}

\* what is left of the rows to come once the statement has written those
\* before the first that another transaction holds, at which it waits
RECURSIVE Scan(_, _)
Scan(pending, held) ==
    IF pending = <<>> \/ Head(pending) \in held THEN pending
    ELSE Scan(Tail(pending), held)

\* what can be left to a statement that begins and finds the rows with
\* the keys
Scanning(pks, held) ==
    IF pks \cap held = {} THEN {<<>>}
    ELSE {Scan(order, held) : order \in ScanOrders(pks)}

\* the keys of the rows a statement of the request writes: those it finds
\* when it begins, those still to come when it has waited
Found(frame, waits, pks) ==
    IF frame.pc = waits THEN Keys(frame.locals.pending) ELSE pks

\* what can be left to the statement when it has taken its step: a
\* statement that has waited goes on when the row it waited for is free
\* or gone
Lefts(frame, waits, pks, held) ==
    IF frame.pc = waits
    THEN {left \in {Scan(frame.locals.pending, held)} :
             left = <<>> \/ left # frame.locals.pending}
    ELSE Scanning(pks, held)

\* where a DELETE of a transaction can take the request: the rows it has
\* written are deleted and not committed, and with rows left it waits
Deletes(frame, table, pks, next, waits) ==
    {[frame EXCEPT !.pc = IF left = <<>> THEN next ELSE waits,
                   !.locals.deleted[table] =
                       @ \cup (Found(frame, waits, pks) \ Keys(left)),
                   !.locals.pending = left] :
        left \in Lefts(frame, waits, pks, HeldBeside(frame, table))}

\* the requests in flight once the rows with the keys, by table, are gone:
\* a statement that waits for one of them, or has one of them to come,
\* skips it
Forgetting(frames, deleted) ==
    LET Forgets(frame) ==
            IF frame.pc \in DOMAIN WaitingPcs
            THEN [frame EXCEPT !.locals.pending =
                     SelectSeq(@, LAMBDA pk : pk \notin deleted[WaitingPcs[frame.pc]])]
            ELSE frame
    IN  BagOfAll(Forgets, frames)

\* a request in flight is answered by the step that commits the deletion
\* of the rows with the keys
EndsDeleting(frame, sent, deleted) ==
    /\ inflight' = Forgetting(inflight (-) SetToBag({frame}), deleted)
    /\ http' = sent

\* where the requests are whose INSERT has stored its row and not
\* committed it: a get_or_create between the INSERT and the COMMIT of its
\* transaction, and an INSERT committed on its own whose check of the
\* foreign keys waits; with the table and the local that holds the row
InsertedPcs ==
    [commit_create_ingredient |-> [table |-> "Ingredient", local |-> "ingredient"],
     commit_create_link |->
         [table |-> "RecipeIngredient", local |-> "recipe_ingredient"],
     create_recipe_ingredient_checks |->
         [table |-> "RecipeIngredient", local |-> "recipe_ingredient"],
     save_link_insert_checks |->
         [table |-> "RecipeIngredient", local |-> "recipe_ingredient"],
     commit_create_item |-> [table |-> "ShoppingList", local |-> "shopping_item"],
     save_item_insert_checks |-> [table |-> "ShoppingList", local |-> "item"]]

\* the rows of a table that the other requests in flight have inserted and
\* not committed: no other request reads them, and an INSERT of a row with
\* the unique key of one of them waits
InsertedBeside(frame, table) ==
    {other.locals[InsertedPcs[other.pc].local] :
        other \in {other \in BagToSet(inflight (-) SetToBag({frame})) :
                      /\ other.pc \in DOMAIN InsertedPcs
                      /\ InsertedPcs[other.pc].table = table}}

\* unique_together that the database does not enforce
unique_together_Unenforced(rows, row) == FALSE

\* unique_together = [['user', 'recipe']] (models.py 111): whether inserting
\* the row is refused with IntegrityError
unique_together(rows, row) ==
    \E entry \in rows : entry.user = row.user /\ entry.recipe = row.recipe

\* a foreign key to Recipe that the database does not enforce
RecipeMissing_Unenforced(pk) == FALSE

\* the foreign key of a row to Recipe (models.py 65, 100): whether the
\* database refuses to store the row with IntegrityError
RecipeMissing(pk) == pk \notin Pks(Recipe_objects)

\* whether the database refuses to store a RecipeIngredient row of the
\* recipe and the ingredient: either is gone (the foreign keys of
\* models.py 65-76) or the pair has a row (unique_together, models.py 86)
LinkRefused(recipe, ingredient) ==
    \/ RecipeMissing(recipe)
    \/ ingredient \notin Pks(Ingredient_objects)
    \/ LinksOfPair(recipe, ingredient) # {}

\* whether the INSERT of a RecipeIngredient row has to wait for its unique
\* keys: the row of the pair or the row with its key is being deleted, or
\* a row of the pair is being inserted
LinkUniqueWaits(frame, row) ==
    \/ RowsHeld(frame, "RecipeIngredient",
                Pks(LinksOfPair(row.recipe, row.ingredient)) \cup {row.pk})
    \/ \E other \in InsertedBeside(frame, "RecipeIngredient") :
           other.recipe = row.recipe /\ other.ingredient = row.ingredient

\* whether the check of the foreign keys of a RecipeIngredient row has to
\* wait: its recipe or its ingredient is being deleted
LinkForeignKeyWaits(frame, row) ==
    \/ RowsHeld(frame, "Recipe", {row.recipe})
    \/ RowsHeld(frame, "Ingredient", {row.ingredient})

\* the same of a ShoppingList row
EntryUniqueWaits(frame, row) ==
    \/ RowsHeld(frame, "ShoppingList",
                Pks(EntriesOf(row.user, row.recipe)) \cup {row.pk})
    \/ \E other \in InsertedBeside(frame, "ShoppingList") :
           other.user = row.user /\ other.recipe = row.recipe

EntryForeignKeyWaits(frame, row) == RowsHeld(frame, "Recipe", {row.recipe})

\* whether the INSERT or UPDATE of an Ingredient row has to wait: a row
\* with its name or its key is being deleted, or a row with its name is
\* being inserted
IngredientWriteWaits(frame, row) ==
    \/ RowsHeld(frame, "Ingredient",
                Pks(Named(Ingredient_objects, row.name)) \cup {row.pk})
    \/ \E other \in InsertedBeside(frame, "Ingredient") : other.name = row.name

\* on_delete=CASCADE of RecipeIngredient.recipe (models.py 65-70): the rows
\* Model.delete() of the recipe deletes
CascadeLinks(rows, pk) == {link \in rows : link.recipe = pk}

\* on_delete=CASCADE of ShoppingList.recipe (models.py 100-105)
CascadeEntries(rows, pk) == {entry \in rows : entry.recipe = pk}

\* on_delete=CASCADE of RecipeIngredient.ingredient (models.py 71-76)
CascadeIngredient(rows, pk) == {link \in rows : link.ingredient = pk}

\* a COMMIT that does not check the foreign keys of RecipeIngredient
LeftLinks_Unchecked(deleted) == {}

\* the RecipeIngredient rows that refer to a row a transaction has deleted
\* and that the transaction has not deleted: the foreign keys of models.py
\* 65-76, checked when it commits
LeftLinks(deleted) ==
    {link \in RecipeIngredient_objects :
        /\ link.pk \notin deleted.RecipeIngredient
        /\ link.recipe \in deleted.Recipe \/ link.ingredient \in deleted.Ingredient}

\* the ShoppingList rows, likewise: the foreign key of models.py 100-105
LeftEntries(deleted) ==
    {entry \in ShoppingList_objects :
        entry.pk \notin deleted.ShoppingList /\ entry.recipe \in deleted.Recipe}

\* whether the COMMIT of a transaction has to wait: a row that its check
\* of the foreign keys finds is being deleted
CommitWaits(frame) ==
    \/ RowsHeld(frame, "RecipeIngredient", Pks(LeftLinks(frame.locals.deleted)))
    \/ RowsHeld(frame, "ShoppingList", Pks(LeftEntries(frame.locals.deleted)))

\* the rows of a table a committed transaction leaves
Without(rows, pks) == {row \in rows : row.pk \notin pks}

-----------------------------------------------------------------------------
(* parse_recipe_view (views.py 144-187)                                    *)

\* what the server of the posted URL can answer with: a 404, a page whose
\* title is empty, the example document, a page whose two ingredient lines
\* name the same ingredient
ImportResponses ==
    { Answer("", 404, TRUE, <<>>),
      Answer("", 200, TRUE, <<Node("h1", "", "", {}, "  ", <<>>)>>),
      Answer("", 200, TRUE, <<ExampleTitle, ExampleList>>),
      Answer("", 200, TRUE,
             <<Node("h1", "", "", {}, "Bliny", <<>>),
               Node("ul", "recipe-ingredients", "", {}, "",
                    <<Li("", "500 g muki"), Li("", "muki - 2 stakana")>>)>>) }

\* parser.parse_recipe() (views.py 151-152) for each answer of the server
ImportParses == [r \in ImportResponses |-> parse_recipe(r)]

\* the values of the url field a client posts
PostedUrls == {"https://example.com/borx", "ne url"}

\* ParseRecipeForm(request.POST).is_valid(): url is a required URLField
\* (forms.py 103); of PostedUrls only the https URL passes its validation
is_valid(url) == url = "https://example.com/borx"

\* the requests: the page is fetched for a valid form only, so the other
\* requests come with one answer of the server
ImportRequests ==
    {request \in [view : {"parse_recipe_view"}, user : {"anna", AnonymousUser},
                  method : {"GET", "POST"}, url : PostedUrls,
                  answer : ImportResponses] :
        \/ request.answer.status = 404
        \/ /\ request.user # AnonymousUser
           /\ request.method = "POST"
           /\ is_valid(request.url)}

\* "Не удалось распарсить рецепт. Проверьте URL."
ImportFailedMessage ==
    [level |-> "error", text |-> "Ne udalosf rasparsitf reqept. Proverfte URL."]

\* 'Рецепт "..." успешно импортирован!'
ImportedMessage(title) ==
    [level |-> "success", text |-> "Reqept \"" \o title \o "\" uspewno importirovan!"]

\* lines 183-187: render(request, 'recipes/parse_recipe.html', {'form': form})
RenderParseForm(request, bound, messages) ==
    Response(request, 200, "recipes/parse_recipe.html", "",
             Form("ParseRecipeForm", bound, None), messages)

\* lines 176-177: the message and the redirect to the recipe
Imported(request, recipe) ==
    Response(request, 302, "", "recipe_detail", None, <<ImportedMessage(recipe.title)>>)

\* lines 155-163: Recipe.objects.create(...), the row getting the key pk
CreatedRecipe(pk, data, user, url) ==
    [pk |-> pk, title |-> data.title, description |-> data.description,
     instructions |-> data.instructions, author |-> user,
     cooking_time |-> data.cooking_time, servings |-> data.servings,
     source_url |-> url]

\* Answered that stores a Recipe row for the URL all the same
Answered_StoresRecipe(sent) ==
    /\ http' = sent
    /\ Recipe_objects' = Recipe_objects \cup
            {[pk |-> id_seq.Recipe + 1, title |-> "", description |-> "",
              instructions |-> "", author |-> sent.request.user,
              cooking_time |-> DefaultCookingTime, servings |-> DefaultServings,
              source_url |-> sent.request.url]}
    /\ nextval("Recipe")
    /\ UNCHANGED <<Ingredient_objects, RecipeIngredient_objects, ShoppingList_objects>>

\* the import view answers without having run a statement
Answered(sent) == http' = sent /\ UNCHANGED <<Tables, id_seq>>

\* the locals of a request that stores ingredients: the recipe, the
\* ingredients still to store (the first is the one at hand), and the
\* Ingredient and RecipeIngredient instances the view holds
Storing(recipe, todo, ingredient, recipe_ingredient) ==
    [recipe |-> recipe, todo |-> todo, ingredient |-> ingredient,
     recipe_ingredient |-> recipe_ingredient]

\* parse_recipe_view takes up one of the requests (lines 146-150): a valid
\* form has the view fetch the page
ParseRecipeViewOf(requests) ==
    /\ BagCardinality(inflight) < MaxInflight
    /\ \E request \in requests :
        IF request.user = AnonymousUser
        THEN Answered(LoginRedirect(request)) /\ UNCHANGED inflight
        ELSE IF request.method # "POST"
             THEN Answered(RenderParseForm(request, FALSE, <<>>)) /\ UNCHANGED inflight
        ELSE IF ~is_valid(request.url)
             THEN Answered(RenderParseForm(request, TRUE, <<>>)) /\ UNCHANGED inflight
        ELSE /\ Starts(Frame(request, "parse_recipe", None))
             /\ UNCHANGED <<Tables, id_seq>>
    /\ UNCHANGED otherVars

\* lines 151-163: parser.parse_recipe() returns, and the view reports the
\* failure or runs the INSERT of the Recipe row; without ingredients the
\* loop is over at once
FetchAndStoreRecipe ==
    /\ \E frame \in At({"parse_recipe"}) :
        LET request == frame.request
        IN  \E data \in {parse_recipe(request.answer)} :
            IF data = None
            THEN /\ Answered(RenderParseForm(request, TRUE, <<ImportFailedMessage>>))
                 /\ inflight' = inflight (-) SetToBag({frame})
            ELSE \E recipe \in {CreatedRecipe(id_seq.Recipe + 1, data,
                                              request.user, request.url)} :
                     /\ id_seq.Recipe < MaxRecipes
                     /\ Recipe_objects' = Recipe_objects \cup {recipe}
                     /\ nextval("Recipe")
                     /\ UNCHANGED <<Ingredient_objects, RecipeIngredient_objects,
                                    ShoppingList_objects>>
                     /\ IF data.ingredients = <<>>
                        THEN Ends(frame, Imported(request, recipe))
                        ELSE GoesOn(frame, Frame(request, "get_ingredient",
                                        Storing(recipe, data.ingredients, None, None)))
    /\ UNCHANGED otherVars

\* where a request goes once it holds its Ingredient: the import creates
\* the RecipeIngredient row (views.py 170), the form gets or creates it
\* (forms.py 87)
AfterIngredient(request) ==
    IF request.view = "parse_recipe_view" THEN "create_recipe_ingredient"
    ELSE "get_link"

\* Ingredient.objects.get_or_create(name=..., defaults={'unit': ...})
\* (views.py 166-169, forms.py 82-85), its get: the SELECT by name, before
\* the INSERT or after a refused one, which raises the IntegrityError again
\* when the row is gone
GetOrCreateIngredientGet ==
    /\ \E frame \in At({"get_ingredient", "get_ingredient_again"}) :
        LET found == Named(Ingredient_objects, Head(frame.locals.todo).name)
        IN  IF found # {}
            THEN GoesOn(frame, Frame(frame.request, AfterIngredient(frame.request),
                                     [frame.locals EXCEPT
                                         !.ingredient = CHOOSE row \in found : TRUE]))
            ELSE IF frame.pc = "get_ingredient"
                 THEN GoesOn(frame, [frame EXCEPT !.pc = "create_ingredient"])
                 ELSE Ends(frame, ServerError(frame.request, "IntegrityError"))
    /\ UNCHANGED <<Tables, id_seq, otherVars>>

\* its create, which get_or_create runs in a transaction.  The INSERT
\* draws the key of the row, whether or not it stores the row, and waits
\* while a row with the name is being inserted or deleted.  It is refused
\* when the name is taken (unique=True, models.py 8); the row it stores is
\* not committed
GetOrCreateIngredientCreate ==
    /\ \E frame \in At({"create_ingredient", "create_ingredient_waits"}) :
        LET begins == frame.pc = "create_ingredient"
            ing_data == Head(frame.locals.todo)
            row == IF begins
                   THEN [pk |-> id_seq.Ingredient + 1, name |-> ing_data.name,
                         unit |-> ing_data.unit]
                   ELSE frame.locals.ingredient
            Holding(at, ingredient) ==
                Frame(frame.request, at, [frame.locals EXCEPT !.ingredient = ingredient])
        IN  /\ begins => id_seq.Ingredient < MaxIngredients
            /\ IF begins THEN nextval("Ingredient") ELSE UNCHANGED id_seq
            /\ IF IngredientWriteWaits(frame, row)
               THEN begins /\ GoesOn(frame, Holding("create_ingredient_waits", row))
               ELSE IF Named(Ingredient_objects, ing_data.name) # {}
                    THEN GoesOn(frame, Holding("get_ingredient_again", None))
               ELSE GoesOn(frame, Holding("commit_create_ingredient", row))
    /\ UNCHANGED <<Tables, otherVars>>

\* the COMMIT of the create: the row is stored, and get_or_create returns
\* it
GetOrCreateIngredientCommit ==
    /\ \E frame \in At({"commit_create_ingredient"}) :
        /\ Ingredient_objects' = Ingredient_objects \cup {frame.locals.ingredient}
        /\ GoesOn(frame, [frame EXCEPT !.pc = AfterIngredient(frame.request)])
    /\ UNCHANGED <<Recipe_objects, RecipeIngredient_objects, ShoppingList_objects,
                   id_seq, otherVars>>

\* RecipeIngredient.objects.create(...) of the import (views.py 170-174):
\* the INSERT draws the key of the row and waits while a row of the pair
\* is being inserted or deleted; when no row stands in its way it has
\* stored the row, uncommitted, and the check of the foreign keys waits
\* while the recipe or the ingredient is being deleted.  An IntegrityError
\* ends the request, a stored row takes the loop to the next ingredient or
\* to the answer
CreateRecipeIngredient ==
    /\ \E frame \in At({"create_recipe_ingredient", "create_recipe_ingredient_waits",
                        "create_recipe_ingredient_checks"}) :
        LET begins == frame.pc = "create_recipe_ingredient"
            checks == frame.pc = "create_recipe_ingredient_checks"
            recipe == frame.locals.recipe
            ingredient == frame.locals.ingredient
            todo == Tail(frame.locals.todo)
            row == IF begins
                   THEN Link(id_seq.RecipeIngredient + 1, recipe.pk, ingredient.pk,
                             Head(frame.locals.todo).quantity)
                   ELSE frame.locals.recipe_ingredient
            Holding(at) ==
                Frame(frame.request, at, [frame.locals EXCEPT !.recipe_ingredient = row])
        IN  /\ begins => id_seq.RecipeIngredient < MaxLinks
            /\ IF begins THEN nextval("RecipeIngredient") ELSE UNCHANGED id_seq
            /\ IF ~checks /\ LinkUniqueWaits(frame, row)
               THEN /\ begins
                    /\ GoesOn(frame, Holding("create_recipe_ingredient_waits"))
                    /\ UNCHANGED RecipeIngredient_objects
               ELSE IF /\ LinksOfPair(recipe.pk, ingredient.pk) = {}
                       /\ LinkForeignKeyWaits(frame, row)
                    THEN /\ ~checks
                         /\ GoesOn(frame, Holding("create_recipe_ingredient_checks"))
                         /\ UNCHANGED RecipeIngredient_objects
               ELSE IF LinkRefused(recipe.pk, ingredient.pk)
                    THEN /\ Ends(frame, ServerError(frame.request, "IntegrityError"))
                         /\ UNCHANGED RecipeIngredient_objects
               ELSE /\ RecipeIngredient_objects' = RecipeIngredient_objects \cup {row}
                    /\ IF todo = <<>>
                       THEN Ends(frame, Imported(frame.request, recipe))
                       ELSE GoesOn(frame, Frame(frame.request, "get_ingredient",
                                                Storing(recipe, todo, None, None)))
    /\ UNCHANGED <<Recipe_objects, Ingredient_objects, ShoppingList_objects, otherVars>>

-----------------------------------------------------------------------------
(* add_ingredient_to_recipe (views.py 109-127) and                         *)
(* RecipeIngredientForm.save (forms.py 77-98)                              *)

\* the commit argument of save that is always set
commit_Always(request) == TRUE

\* the commit argument of save: the view leaves it at its default
\* (views.py 117), a direct call passes it
commit(request) ==
    IF request.view = "add_ingredient_to_recipe" THEN TRUE ELSE request.commit

\* what save has done when it returns: the view queues its message and
\* redirects to the recipe (views.py 118-119), a direct call has the
\* RecipeIngredient instance
Saved(request, recipe_ingredient) ==
    IF request.view = "add_ingredient_to_recipe"
    THEN Response(request, 302, "", "recipe_detail", None,
                  <<ShopMessage("Ingredient dobavlen!")>>)
    ELSE [request |-> request, returned |-> recipe_ingredient]

\* lines 78-80: the cleaned data of the form, in the shape of a parsed
\* ingredient
cleaned_data(request) ==
    <<[name |-> request.ingredient_name, unit |-> request.unit,
       quantity |-> request.quantity]>>

\* add_ingredient_to_recipe takes up one request: the lookup of the user's
\* recipe (line 112) and the validation of the posted form
AddIngredientToRecipeOf(requests) ==
    /\ BagCardinality(inflight) < MaxInflight
    /\ \E request \in requests :
        LET found == get(QuerysetOf(request), request.pk)
        IN  IF request.user = AnonymousUser THEN Unauthenticated(request)
            ELSE IF found = <<>> THEN Declined(NotFound(request))
            ELSE IF request.method # "POST" \/ request.quantity = ""
                 THEN Declined(Response(request, 200, "recipes/add_ingredient.html", "",
                                        Form("RecipeIngredientForm",
                                             request.method = "POST", None), <<>>))
            ELSE /\ Starts(Frame(request, "get_ingredient",
                                 Storing(Head(found), cleaned_data(request), None, None)))
                 /\ UNCHANGED <<Tables, id_seq>>
    /\ UNCHANGED otherVars

\* RecipeIngredient.objects.get_or_create(recipe=..., ingredient=...,
\* defaults={'quantity': ...}) (forms.py 87-91), its get, before the INSERT
\* or after a refused one.  A row that is there gets the quantity (line 94)
\* and, when commit is set, is saved; without commit save returns it.
GetOrCreateLinkGet ==
    /\ \E frame \in At({"get_link", "get_link_again"}) :
        LET found == LinksOfPair(frame.locals.recipe.pk, frame.locals.ingredient.pk)
            recipe_ingredient ==
                [(CHOOSE link \in found : TRUE) EXCEPT
                    !.quantity = Head(frame.locals.todo).quantity]
        IN  IF found # {}
            THEN IF commit(frame.request)
                 THEN GoesOn(frame, Frame(frame.request, "save_link",
                                 [frame.locals EXCEPT
                                     !.recipe_ingredient = recipe_ingredient]))
                 ELSE Ends(frame, Saved(frame.request, recipe_ingredient))
            ELSE IF frame.pc = "get_link"
                 THEN GoesOn(frame, [frame EXCEPT !.pc = "create_link"])
                 ELSE Ends(frame, ServerError(frame.request, "IntegrityError"))
    /\ UNCHANGED <<Tables, id_seq, otherVars>>

\* its create, which get_or_create runs in a transaction.  The INSERT
\* draws the key of the row, whether or not it stores the row, and waits
\* while a row of the pair is being inserted or deleted.  It is refused
\* when the pair has a row (unique_together, models.py 86); the row it
\* stores is not committed, and its foreign keys are not checked yet
GetOrCreateLinkCreate ==
    /\ \E frame \in At({"create_link", "create_link_waits"}) :
        LET begins == frame.pc = "create_link"
            row == IF begins
                   THEN Link(id_seq.RecipeIngredient + 1, frame.locals.recipe.pk,
                             frame.locals.ingredient.pk,
                             Head(frame.locals.todo).quantity)
                   ELSE frame.locals.recipe_ingredient
            Holding(at, recipe_ingredient) ==
                Frame(frame.request, at,
                      [frame.locals EXCEPT !.recipe_ingredient = recipe_ingredient])
        IN  /\ begins => id_seq.RecipeIngredient < MaxLinks
            /\ IF begins THEN nextval("RecipeIngredient") ELSE UNCHANGED id_seq
            /\ IF LinkUniqueWaits(frame, row)
               THEN begins /\ GoesOn(frame, Holding("create_link_waits", row))
               ELSE IF LinksOfPair(row.recipe, row.ingredient) # {}
                    THEN GoesOn(frame, Holding("get_link_again", None))
               ELSE GoesOn(frame, Holding("commit_create_link", row))
    /\ UNCHANGED <<Tables, otherVars>>

\* the COMMIT of the create: the foreign keys are checked, and a recipe or
\* an ingredient that is gone has the database refuse the commit, which
\* get_or_create takes like a refused INSERT; otherwise the row is stored
\* and save returns
GetOrCreateLinkCommit ==
    /\ \E frame \in At({"commit_create_link"}) :
        LET row == frame.locals.recipe_ingredient
        IN  /\ ~LinkForeignKeyWaits(frame, row)
            /\ IF RecipeMissing(row.recipe) \/ row.ingredient \notin Pks(Ingredient_objects)
               THEN /\ GoesOn(frame, [frame EXCEPT !.pc = "get_link_again"])
                    /\ UNCHANGED RecipeIngredient_objects
               ELSE /\ RecipeIngredient_objects' = RecipeIngredient_objects \cup {row}
                    /\ Ends(frame, Saved(frame.request, row))
    /\ UNCHANGED <<Recipe_objects, Ingredient_objects, ShoppingList_objects,
                   id_seq, otherVars>>

\* recipe_ingredient.save() (forms.py 96), its first statement: the UPDATE
\* of the row with the key of the instance, which waits while the row is
\* being deleted.  Model.save() runs its two statements outside a
\* transaction: when the UPDATE has found no row, or the row it found is
\* gone, the INSERT follows as a statement of its own.
SaveLink ==
    /\ \E frame \in At({"save_link", "save_link_waits"}) :
        LET row == frame.locals.recipe_ingredient
            locals == Storing(frame.locals.recipe, frame.locals.todo,
                              frame.locals.ingredient, row)
            pks == {row.pk} \cap Pks(RecipeIngredient_objects)
            found == Found(frame, "save_link_waits", pks)
            stored == {link \in RecipeIngredient_objects : link.pk \in found}
        IN  \E left \in Lefts(frame, "save_link_waits", pks,
                              HeldBeside(frame, "RecipeIngredient")) :
                IF left # <<>>
                THEN /\ GoesOn(frame, Frame(frame.request, "save_link_waits",
                            [recipe |-> locals.recipe, todo |-> locals.todo,
                             ingredient |-> locals.ingredient,
                             recipe_ingredient |-> row, pending |-> left]))
                     /\ UNCHANGED RecipeIngredient_objects
                ELSE IF stored = {}
                     THEN /\ GoesOn(frame, Frame(frame.request, "save_link_insert",
                                                 locals))
                          /\ UNCHANGED RecipeIngredient_objects
                ELSE /\ RecipeIngredient_objects' =
                            (RecipeIngredient_objects \ stored) \cup {row}
                     /\ Ends(frame, Saved(frame.request, row))
    /\ UNCHANGED <<Recipe_objects, Ingredient_objects, ShoppingList_objects,
                   id_seq, otherVars>>

\* its second statement: the INSERT of the instance under its key, which
\* waits while a row of the pair is being inserted or deleted; when no row
\* stands in its way it has stored the row, uncommitted, and the check of
\* the foreign keys waits while the recipe or the ingredient is being
\* deleted.  It is refused when a row has the key or the pair by now, or
\* the recipe or the ingredient is gone
SaveLinkInsert ==
    /\ \E frame \in At({"save_link_insert", "save_link_insert_checks"}) :
        LET row == frame.locals.recipe_ingredient
            checks == frame.pc = "save_link_insert_checks"
        IN  /\ checks \/ ~LinkUniqueWaits(frame, row)
            /\ IF /\ row.pk \notin Pks(RecipeIngredient_objects)
                  /\ LinksOfPair(row.recipe, row.ingredient) = {}
                  /\ LinkForeignKeyWaits(frame, row)
               THEN /\ ~checks
                    /\ GoesOn(frame, [frame EXCEPT !.pc = "save_link_insert_checks"])
                    /\ UNCHANGED RecipeIngredient_objects
               ELSE IF \/ row.pk \in Pks(RecipeIngredient_objects)
                       \/ LinkRefused(row.recipe, row.ingredient)
                    THEN /\ Ends(frame, ServerError(frame.request, "IntegrityError"))
                         /\ UNCHANGED RecipeIngredient_objects
               ELSE /\ RecipeIngredient_objects' = RecipeIngredient_objects \cup {row}
                    /\ Ends(frame, Saved(frame.request, row))
    /\ UNCHANGED <<Recipe_objects, Ingredient_objects, ShoppingList_objects,
                   id_seq, otherVars>>

-----------------------------------------------------------------------------
(* remove_ingredient_from_recipe (views.py 130-141)                        *)

\* the view takes up one request: the lookup of the user's recipe (line 133)
RemoveIngredientFromRecipeOf(requests) ==
    /\ BagCardinality(inflight) < MaxInflight
    /\ \E request \in requests :
        LET found == get(QuerysetOf(request), request.pk)
        IN  IF request.user = AnonymousUser THEN Unauthenticated(request)
            ELSE IF found = <<>> THEN Declined(NotFound(request))
            ELSE /\ Starts(Frame(request, "get_link_or_404", [recipe |-> Head(found)]))
                 /\ UNCHANGED <<Tables, id_seq>>
    /\ UNCHANGED otherVars

\* lines 134-138: the lookup of the RecipeIngredient row
RemoveIngredientGet ==
    /\ \E frame \in At({"get_link_or_404"}) :
        LET found == LinksOfPair(frame.locals.recipe.pk, frame.request.ingredient_pk)
        IN  IF found = {} THEN Ends(frame, NotFound(frame.request))
            ELSE GoesOn(frame, Frame(frame.request, "delete_link",
                                     [recipe |-> frame.locals.recipe,
                                      recipe_ingredient |-> CHOOSE link \in found : TRUE]))
    /\ UNCHANGED <<Tables, id_seq, otherVars>>

\* lines 139-141: recipe_ingredient.delete(), the DELETE of the row with
\* the key of the instance, which waits while the row is being deleted,
\* and the redirect
RemoveIngredientDelete ==
    /\ \E frame \in At({"delete_link", "delete_link_waits"}) :
        LET pks == {frame.locals.recipe_ingredient.pk} \cap Pks(RecipeIngredient_objects)
            found == Found(frame, "delete_link_waits", pks)
        IN  \E left \in Lefts(frame, "delete_link_waits", pks,
                              HeldBeside(frame, "RecipeIngredient")) :
                IF left # <<>>
                THEN /\ GoesOn(frame, Frame(frame.request, "delete_link_waits",
                            [recipe |-> frame.locals.recipe,
                             recipe_ingredient |-> frame.locals.recipe_ingredient,
                             pending |-> left]))
                     /\ UNCHANGED RecipeIngredient_objects
                ELSE /\ RecipeIngredient_objects' =
                            Without(RecipeIngredient_objects, found)
                     /\ EndsDeleting(frame,
                            Response(frame.request, 302, "", "recipe_detail", None,
                                     <<ShopMessage("Ingredient udalen!")>>),
                            [NothingDeleted EXCEPT !.RecipeIngredient = found])
    /\ UNCHANGED <<Recipe_objects, Ingredient_objects, ShoppingList_objects,
                   id_seq, otherVars>>
-----------------------------------------------------------------------------
(* RecipeCreateView, RecipeUpdateView, RecipeDeleteView (views.py 55-106)  *)
(* and create, update, partial_update, destroy of the RecipeViewSet        *)
(* (api_views.py 17-42)                                                    *)

\* RecipeCreateView.post and RecipeViewSet.create handle one request.  The
\* title is required (models.py 26, forms.py 9-13, serializers.py 53-60):
\* without one the form is rendered again, or the REST view answers 400,
\* and no statement is run.  With one, the one statement is the INSERT of
\* the row; the fields besides the title are posted with the same values
\* every time.
CreateRecipeOf(requests) ==
    /\ BagCardinality(inflight) < MaxInflight
    /\ \E request \in requests :
        IF request.user = AnonymousUser THEN Unauthenticated(request)
        ELSE IF request.title = ""
             THEN Declined(IF request.view \in WebViews
                           THEN Response(request, 200, "recipes/recipe_form.html", "",
                                         Form("RecipeForm", TRUE, None), <<>>)
                           ELSE Response(request, 400, "", "", None, <<>>))
        ELSE /\ id_seq.Recipe < MaxRecipes
             /\ Recipe_objects' = Recipe_objects \cup
                    {CreatedRecipe(id_seq.Recipe + 1,
                                   [title |-> request.title, description |-> "Ovoxi",
                                    instructions |-> "Tuwit", cooking_time |-> 30,
                                    servings |-> 4],
                                   request.user, None)}
             /\ nextval("Recipe")
             /\ http' = IF request.view \in WebViews
                        THEN Response(request, 302, "", "recipe_list", None,
                                      <<ShopMessage("Reqept uspewno sozdan!")>>)
                        ELSE Response(request, 201, "", "", None, <<>>)
             /\ UNCHANGED <<Ingredient_objects, RecipeIngredient_objects,
                            ShoppingList_objects, inflight>>
    /\ UNCHANGED otherVars

\* RecipeUpdateView.post, RecipeViewSet.update and partial_update take up
\* one request: get_object() and the validation of the posted data.  The
\* REST views answer invalid data with 400; the view of views.py renders
\* the form again, for which get_context_data looks the recipe up once
\* more (views.py 91)
UpdateRecipeOf(requests) ==
    /\ BagCardinality(inflight) < MaxInflight
    /\ \E request \in requests :
        LET found == get(QuerysetOf(request), request.pk)
        IN  IF request.user = AnonymousUser THEN Unauthenticated(request)
            ELSE IF found = <<>> THEN Declined(NotFound(request))
            ELSE IF request.title = "" /\ request.view \notin WebViews
                 THEN Declined(Response(request, 400, "", "", None, <<>>))
            ELSE /\ Starts(Frame(request,
                                 IF request.title = "" THEN "get_context_data"
                                 ELSE "save_recipe",
                                 [recipe |-> IF request.title = "" THEN Head(found)
                                             ELSE [Head(found) EXCEPT
                                                      !.title = request.title]]))
                 /\ UNCHANGED <<Tables, id_seq>>
    /\ UNCHANGED otherVars

\* views.py 91: context['recipe'] = self.get_object() of the form rendered
\* again
UpdateContext ==
    /\ \E frame \in At({"get_context_data"}) :
        Ends(frame, IF get(QuerysetOf(frame.request), frame.request.pk) = <<>>
                    THEN NotFound(frame.request)
                    ELSE Response(frame.request, 200, "recipes/recipe_form.html", "",
                                  Form("RecipeForm", TRUE, frame.locals.recipe), <<>>))
    /\ UNCHANGED <<Tables, id_seq, otherVars>>

\* the answer to an update that has saved the recipe (views.py 83-85)
Updated(request) ==
    IF request.view \in WebViews
    THEN Response(request, 302, "", "recipe_detail", None,
                  <<ShopMessage("Reqept uspewno obnovlen!")>>)
    ELSE Response(request, 200, "", "", None, <<>>)

\* form.save() and serializer.save(): Model.save() of the instance, its
\* first statement: the UPDATE of the row with its key, which waits while
\* the row is being deleted
SaveRecipe ==
    /\ \E frame \in At({"save_recipe", "save_recipe_waits"}) :
        LET row == frame.locals.recipe
            pks == {row.pk} \cap Pks(Recipe_objects)
            found == Found(frame, "save_recipe_waits", pks)
            stored == {recipe \in Recipe_objects : recipe.pk \in found}
        IN  \E left \in Lefts(frame, "save_recipe_waits", pks,
                              HeldBeside(frame, "Recipe")) :
                IF left # <<>>
                THEN /\ GoesOn(frame, Frame(frame.request, "save_recipe_waits",
                                            [recipe |-> row, pending |-> left]))
                     /\ UNCHANGED Recipe_objects
                ELSE IF stored = {}
                     THEN /\ GoesOn(frame, Frame(frame.request, "save_recipe_insert",
                                                 [recipe |-> row]))
                          /\ UNCHANGED Recipe_objects
                ELSE /\ Recipe_objects' = (Recipe_objects \ stored) \cup {row}
                     /\ Ends(frame, Updated(frame.request))
    /\ UNCHANGED <<Ingredient_objects, RecipeIngredient_objects, ShoppingList_objects,
                   id_seq, otherVars>>

\* its second statement, when the UPDATE has found no row: the INSERT of
\* the instance under its key, refused when a row has the key by now
SaveRecipeInsert ==
    /\ \E frame \in At({"save_recipe_insert"}) :
        LET row == frame.locals.recipe
        IN  /\ ~RowsHeld(frame, "Recipe", {row.pk})
            /\ IF row.pk \in Pks(Recipe_objects)
               THEN /\ Ends(frame, ServerError(frame.request, "IntegrityError"))
                    /\ UNCHANGED Recipe_objects
               ELSE /\ Recipe_objects' = Recipe_objects \cup {row}
                    /\ Ends(frame, Updated(frame.request))
    /\ UNCHANGED <<Ingredient_objects, RecipeIngredient_objects, ShoppingList_objects,
                   id_seq, otherVars>>

\* what RecipeDeleteView.delete (views.py 104-106) queues before it looks
\* the recipe up: "Рецепт успешно удален!" under a Django whose DeleteView
\* calls delete() for a POST, nothing under a Django (4.0 and later) whose
\* DeleteView does not call it; the repository does not say which it runs
\* under
DeleteMessages(request) ==
    IF request.view = "RecipeDeleteView"
    THEN {<<>>, <<ShopMessage("Reqept uspewno udalen!")>>}
    ELSE {<<>>}

\* RecipeDeleteView.post and RecipeViewSet.destroy take up one request:
\* get_object().  Model.delete() then runs a transaction, for rows of
\* RecipeIngredient and of ShoppingList refer to the recipe.
DeleteRecipeOf(requests) ==
    /\ BagCardinality(inflight) < MaxInflight
    /\ \E request \in requests :
        LET found == get(QuerysetOf(request), request.pk)
        IN  IF request.user = AnonymousUser THEN Unauthenticated(request)
            ELSE \E messages \in DeleteMessages(request) :
                IF found = <<>>
                THEN Declined(Response(request, 404, "", "", None, messages))
                ELSE /\ Starts(Frame(request, "delete_recipe_links",
                                     [recipe |-> Head(found), messages |-> messages,
                                      deleted |-> NothingDeleted,
                                      pending |-> <<>>]))
                     /\ UNCHANGED <<Tables, id_seq>>
    /\ UNCHANGED otherVars

\* self.object.delete() and instance.delete(), the first statement of the
\* transaction: the DELETE of the RecipeIngredient rows of the recipe.  It
\* finds the rows stored when it begins and waits at one that is being
\* deleted
DeleteRecipeLinks ==
    /\ \E frame \in At({"delete_recipe_links", "delete_recipe_links_waits"}) :
        \E next \in Deletes(frame, "RecipeIngredient",
                            Pks(CascadeLinks(RecipeIngredient_objects,
                                             frame.locals.recipe.pk)),
                            "delete_recipe_entries", "delete_recipe_links_waits") :
            GoesOn(frame, next)
    /\ UNCHANGED <<Tables, id_seq, otherVars>>

\* the second: the DELETE of the ShoppingList rows of the recipe, likewise
DeleteRecipeEntries ==
    /\ \E frame \in At({"delete_recipe_entries", "delete_recipe_entries_waits"}) :
        \E next \in Deletes(frame, "ShoppingList",
                            Pks(CascadeEntries(ShoppingList_objects,
                                               frame.locals.recipe.pk)),
                            "delete_recipe_row", "delete_recipe_entries_waits") :
            GoesOn(frame, next)
    /\ UNCHANGED <<Tables, id_seq, otherVars>>

\* the third: the DELETE of the row with the key of the instance
DeleteRecipeRow ==
    /\ \E frame \in At({"delete_recipe_row", "delete_recipe_row_waits"}) :
        \E next \in Deletes(frame, "Recipe",
                            {frame.locals.recipe.pk} \cap Pks(Recipe_objects),
                            "commit_recipe", "delete_recipe_row_waits") :
            GoesOn(frame, next)
    /\ UNCHANGED <<Tables, id_seq, otherVars>>

\* the COMMIT: a row that refers to the recipe and was stored after the
\* DELETE of its table began has the database refuse the commit, which leaves
\* every row where it was and raises IntegrityError; otherwise the rows
\* are gone and the view redirects to the list (views.py 98), or answers
\* 204
CommitDeleteRecipe ==
    /\ \E frame \in At({"commit_recipe"}) :
        LET deleted == frame.locals.deleted
        IN  /\ ~CommitWaits(frame)
            /\ IF LeftLinks(deleted) # {} \/ LeftEntries(deleted) # {}
               THEN /\ Ends(frame, ServerError(frame.request, "IntegrityError"))
                    /\ UNCHANGED Tables
               ELSE /\ Recipe_objects' = Without(Recipe_objects, deleted.Recipe)
                    /\ RecipeIngredient_objects' =
                           Without(RecipeIngredient_objects, deleted.RecipeIngredient)
                    /\ ShoppingList_objects' =
                           Without(ShoppingList_objects, deleted.ShoppingList)
                    /\ UNCHANGED Ingredient_objects
                    /\ EndsDeleting(frame,
                           IF frame.request.view \in WebViews
                           THEN Response(frame.request, 302, "", "recipe_list",
                                         None, frame.locals.messages)
                           ELSE Response(frame.request, 204, "", "", None, <<>>),
                           deleted)
    /\ UNCHANGED <<id_seq, otherVars>>

-----------------------------------------------------------------------------
(* The shopping list: add_to_shopping_list, remove_from_shopping_list,     *)
(* clear_shopping_list (views.py 190-205, 240-245), the actions            *)
(* add_to_shopping_list and remove_from_shopping_list of the RecipeViewSet *)
(* (api_views.py 44-78), and create, destroy, update, partial_update and   *)
(* clear of the ShoppingListViewSet (api_views.py 114-122, 154-161).  The  *)
(* REST views are routed by method; the views of views.py do not look at   *)
(* it.                                                                     *)

AddViews == {"add_to_shopping_list", "RecipeViewSet.add_to_shopping_list"}

RemoveViews == {"remove_from_shopping_list", "RecipeViewSet.remove_from_shopping_list"}

ClearViews == {"clear_shopping_list", "ShoppingListViewSet.clear"}

\* the answer of an add request whose get_or_create returned (item, created):
\* a redirect to recipe_detail (views.py 195-196), or 201 / 200
\* (api_views.py 52-60)
AddAnswer(request, recipe, created) ==
    IF request.view = "add_to_shopping_list"
    THEN Response(request, 302, "", "recipe_detail", None,
                  <<ShopMessage("Reqept \"" \o recipe.title
                                    \o "\" dobavlen v spisok pokupok!")>>)
    ELSE Response(request, IF created THEN 201 ELSE 200, "", "", None,
                  <<ShopMessage(IF created THEN "added" ELSE "exists")>>)

\* the answer of a remove request whose delete() deleted so many rows: a
\* redirect to recipe_detail (views.py 204-205), or 204 / 404
\* (api_views.py 70-78)
RemoveAnswer(request, recipe, deleted) ==
    IF request.view = "remove_from_shopping_list"
    THEN Response(request, 302, "", "recipe_detail", None,
                  <<ShopMessage("Reqept \"" \o recipe.title
                                    \o "\" udalen iz spiska pokupok!")>>)
    ELSE Response(request, IF deleted > 0 THEN 204 ELSE 404, "", "", None,
                  <<ShopMessage(IF deleted > 0 THEN "removed" ELSE "not_found")>>)

\* filter(recipe=recipe).delete(): the rows of every user for the recipe
filter_delete_AnyUser(rows, user, recipe) == {entry \in rows : entry.recipe # recipe}

\* ShoppingList.objects.filter(user=user, recipe=recipe).delete(): the rows
\* that stay
filter_delete(rows, user, recipe) ==
    {entry \in rows : ~(entry.user = user /\ entry.recipe = recipe)}

\* ShoppingList.objects.filter(user=user).delete(): the rows that stay
filter_user_delete(rows, user) == {entry \in rows : entry.user # user}

\* the views that add take up one request: the login or permission check
\* and the lookup of the recipe (views.py 193, api_views.py 47)
AddToShoppingListOf(requests) ==
    /\ BagCardinality(inflight) < MaxInflight
    /\ \E request \in requests :
        LET found == get(QuerysetOf(request), request.pk)
        IN  IF request.user = AnonymousUser THEN Unauthenticated(request)
            ELSE IF found = <<>> THEN Declined(NotFound(request))
            ELSE /\ Starts(Frame(request, "get_item", [recipe |-> Head(found)]))
                 /\ UNCHANGED <<Tables, id_seq>>
    /\ UNCHANGED otherVars

\* the locals of a request that runs QuerySet.delete(): the recipe of a
\* remove, the keys of the rows its transaction has deleted and not
\* committed, and those its DELETE has still to come to
Deleting(recipe) ==
    [recipe |-> recipe, deleted |-> NothingDeleted, pending |-> <<>>]

\* the views that remove take up one request: the login or permission
\* check and the lookup of the recipe (views.py 202, api_views.py 65)
RemoveFromShoppingListOf(requests) ==
    /\ BagCardinality(inflight) < MaxInflight
    /\ \E request \in requests :
        LET found == get(QuerysetOf(request), request.pk)
        IN  IF request.user = AnonymousUser THEN Unauthenticated(request)
            ELSE IF found = <<>> THEN Declined(NotFound(request))
            ELSE /\ Starts(Frame(request, "delete_items", Deleting(Head(found))))
                 /\ UNCHANGED <<Tables, id_seq>>
    /\ UNCHANGED otherVars

\* ShoppingList.objects.get_or_create(user=..., recipe=...) (views.py 194,
\* api_views.py 48-51), its get, before the INSERT or after a refused one,
\* which raises the IntegrityError again when the row is not there
GetOrCreateGet ==
    /\ \E frame \in At({"get_item", "get_item_again"}) :
        LET found == EntriesOf(frame.request.user, frame.locals.recipe.pk)
        IN  IF Cardinality(found) > 1
            THEN Ends(frame, ServerError(frame.request, "MultipleObjectsReturned"))
            ELSE IF found # {}
                 THEN Ends(frame, AddAnswer(frame.request, frame.locals.recipe, FALSE))
            ELSE IF frame.pc = "get_item"
                 THEN GoesOn(frame, [frame EXCEPT !.pc = "create_item"])
                 ELSE Ends(frame, ServerError(frame.request, "IntegrityError"))
    /\ UNCHANGED <<Tables, id_seq, otherVars>>

\* its create, which get_or_create runs in a transaction.  The INSERT
\* draws the key of the row, whether or not it stores the row, and waits
\* while a row of the user for the recipe is being inserted or deleted.
\* It is refused when the user has the recipe on the list
\* (unique_together); the row it stores is not committed, and its foreign
\* keys are not checked yet
GetOrCreateCreate ==
    /\ \E frame \in At({"create_item", "create_item_waits"}) :
        LET begins == frame.pc = "create_item"
            row == IF begins
                   THEN Entry(id_seq.ShoppingList + 1, frame.request.user,
                              frame.locals.recipe.pk)
                   ELSE frame.locals.shopping_item
            Holding(at) ==
                Frame(frame.request, at,
                      [recipe |-> frame.locals.recipe, shopping_item |-> row])
        IN  /\ begins => id_seq.ShoppingList < MaxEntries
            /\ IF begins THEN nextval("ShoppingList") ELSE UNCHANGED id_seq
            /\ IF EntryUniqueWaits(frame, row)
               THEN begins /\ GoesOn(frame, Holding("create_item_waits"))
               ELSE IF unique_together(ShoppingList_objects, row)
                    THEN GoesOn(frame, Frame(frame.request, "get_item_again",
                                             [recipe |-> frame.locals.recipe]))
               ELSE GoesOn(frame, Holding("commit_create_item"))
    /\ UNCHANGED <<Tables, otherVars>>

\* the COMMIT of the create: the foreign keys are checked, and a recipe
\* that is gone has the database refuse the commit, which get_or_create
\* takes like a refused INSERT; otherwise the row is stored and the view
\* answers
GetOrCreateCommit ==
    /\ \E frame \in At({"commit_create_item"}) :
        LET row == frame.locals.shopping_item
        IN  /\ ~EntryForeignKeyWaits(frame, row)
            /\ IF RecipeMissing(row.recipe)
               THEN /\ GoesOn(frame, Frame(frame.request, "get_item_again",
                                           [recipe |-> frame.locals.recipe]))
                    /\ UNCHANGED ShoppingList_objects
               ELSE /\ ShoppingList_objects' = ShoppingList_objects \cup {row}
                    /\ Ends(frame, AddAnswer(frame.request, frame.locals.recipe, TRUE))
    /\ UNCHANGED <<Recipe_objects, Ingredient_objects, RecipeIngredient_objects,
                   id_seq, otherVars>>

\* ShoppingList.objects.filter(user=..., recipe=recipe).delete()
\* (views.py 203, api_views.py 66-69), which runs in a transaction: the
\* DELETE of the rows of the user for the recipe.  It finds the rows stored
\* when it begins and waits at one that is being deleted
DeleteItems ==
    /\ \E frame \in At({"delete_items", "delete_items_waits"}) :
        LET left == filter_delete(ShoppingList_objects, frame.request.user,
                                 frame.locals.recipe.pk)
        IN  \E next \in Deletes(frame, "ShoppingList", Pks(ShoppingList_objects \ left),
                                "commit_delete_items", "delete_items_waits") :
                GoesOn(frame, next)
    /\ UNCHANGED <<Tables, id_seq, otherVars>>

\* its COMMIT, after which the rows are gone, and the answer
CommitDeleteItems ==
    /\ \E frame \in At({"commit_delete_items"}) :
        /\ ShoppingList_objects' =
               Without(ShoppingList_objects, frame.locals.deleted.ShoppingList)
        /\ EndsDeleting(frame,
                        RemoveAnswer(frame.request, frame.locals.recipe,
                                     Cardinality(frame.locals.deleted.ShoppingList)),
                        frame.locals.deleted)
    /\ UNCHANGED <<Recipe_objects, Ingredient_objects, RecipeIngredient_objects,
                   id_seq, otherVars>>

\* clear_shopping_list (views.py 240-245) and ShoppingListViewSet.clear
\* (api_views.py 154-161) take up one request: filter(user=...).delete()
\* runs in a transaction, and its first statement is the DELETE of the rows
\* of the user, which finds the rows stored when it begins and waits at one
\* that is being deleted
ClearShoppingListOf(requests) ==
    /\ BagCardinality(inflight) < MaxInflight
    /\ \E request \in requests :
        IF request.user = AnonymousUser THEN Unauthenticated(request)
        ELSE LET left == filter_user_delete(ShoppingList_objects, request.user)
             IN  /\ \E next \in Deletes(Frame(request, "clear", Deleting(None)),
                                        "ShoppingList", Pks(ShoppingList_objects \ left),
                                        "commit_clear", "clear_waits") :
                        Starts(next)
                 /\ UNCHANGED <<Tables, id_seq>>
    /\ UNCHANGED otherVars

\* the DELETE of a clear that has waited goes on
ClearShoppingListGoesOn ==
    /\ \E frame \in At({"clear_waits"}) :
        \E next \in Deletes(frame, "ShoppingList", {}, "commit_clear", "clear_waits") :
            GoesOn(frame, next)
    /\ UNCHANGED <<Tables, id_seq, otherVars>>

\* its COMMIT, after which the rows are gone, and the answer (views.py
\* 244-245, api_views.py 158-161)
CommitClearShoppingList ==
    /\ \E frame \in At({"commit_clear"}) :
        /\ ShoppingList_objects' =
               Without(ShoppingList_objects, frame.locals.deleted.ShoppingList)
        /\ EndsDeleting(frame,
                        IF frame.request.view \in WebViews
                        THEN Response(frame.request, 302, "", "shopping_list", None,
                                      <<ShopMessage("Spisok pokupok ocixen!")>>)
                        ELSE Response(frame.request, 204, "", "", None,
                                      <<ShopMessage("cleared")>>),
                        frame.locals.deleted)
    /\ UNCHANGED <<Recipe_objects, Ingredient_objects, RecipeIngredient_objects,
                   id_seq, otherVars>>

\* create of the ShoppingListViewSet (api_views.py 114-119) handles one
\* request: every field of the serializer is read-only (serializers.py
\* 63-71), so whatever is posted is valid and serializer.save() runs the
\* INSERT of a row without user and recipe, which the database refuses
\* (models.py 95-105: neither column takes NULL) once the sequence has
\* given the row its key
CreateItemOf(requests) ==
    /\ BagCardinality(inflight) < MaxInflight
    /\ \E request \in requests :
        IF request.user = AnonymousUser THEN Unauthenticated(request)
        ELSE /\ id_seq.ShoppingList < MaxEntries
             /\ nextval("ShoppingList")
             /\ http' = ServerError(request, "IntegrityError")
             /\ UNCHANGED <<Tables, inflight>>
    /\ UNCHANGED otherVars

\* destroy, update and partial_update of the ShoppingListViewSet take up
\* one request: get_object() among the rows of the user (get_queryset,
\* api_views.py 121-122)
ShoppingListItemOf(requests) ==
    /\ BagCardinality(inflight) < MaxInflight
    /\ \E request \in requests :
        LET found == get({entry \in ShoppingList_objects : entry.user = request.user},
                         request.pk)
        IN  IF request.user = AnonymousUser THEN Unauthenticated(request)
            ELSE IF found = <<>> THEN Declined(NotFound(request))
            ELSE /\ Starts(Frame(request,
                                 IF request.view = "ShoppingListViewSet.destroy"
                                 THEN "delete_item" ELSE "save_item",
                                 [item |-> Head(found)]))
                 /\ UNCHANGED <<Tables, id_seq>>
    /\ UNCHANGED otherVars

\* instance.delete() of destroy: the DELETE of the row with the key, which
\* waits while the row is being deleted
DeleteItem ==
    /\ \E frame \in At({"delete_item", "delete_item_waits"}) :
        LET pks == {frame.locals.item.pk} \cap Pks(ShoppingList_objects)
            found == Found(frame, "delete_item_waits", pks)
        IN  \E left \in Lefts(frame, "delete_item_waits", pks,
                              HeldBeside(frame, "ShoppingList")) :
                IF left # <<>>
                THEN /\ GoesOn(frame, Frame(frame.request, "delete_item_waits",
                            [item |-> frame.locals.item, pending |-> left]))
                     /\ UNCHANGED ShoppingList_objects
                ELSE /\ ShoppingList_objects' = Without(ShoppingList_objects, found)
                     /\ EndsDeleting(frame,
                            Response(frame.request, 204, "", "", None, <<>>),
                            [NothingDeleted EXCEPT !.ShoppingList = found])
    /\ UNCHANGED <<Recipe_objects, Ingredient_objects, RecipeIngredient_objects,
                   id_seq, otherVars>>

\* serializer.save() of update and partial_update: every field of the
\* serializer is read-only, so the instance is saved as it was read.  The
\* first statement of Model.save(): the UPDATE of the row with its key,
\* which waits while the row is being deleted.  The rows the serializer
\* reads for the body of the answer are not modelled.
SaveItem ==
    /\ \E frame \in At({"save_item", "save_item_waits"}) :
        LET row == frame.locals.item
            pks == {row.pk} \cap Pks(ShoppingList_objects)
            found == Found(frame, "save_item_waits", pks)
            stored == {entry \in ShoppingList_objects : entry.pk \in found}
        IN  \E left \in Lefts(frame, "save_item_waits", pks,
                              HeldBeside(frame, "ShoppingList")) :
                IF left # <<>>
                THEN /\ GoesOn(frame, Frame(frame.request, "save_item_waits",
                                            [item |-> row, pending |-> left]))
                     /\ UNCHANGED ShoppingList_objects
                ELSE IF stored = {}
                     THEN /\ GoesOn(frame, Frame(frame.request, "save_item_insert",
                                                 [item |-> row]))
                          /\ UNCHANGED ShoppingList_objects
                ELSE /\ ShoppingList_objects' =
                            (ShoppingList_objects \ stored) \cup {row}
                     /\ Ends(frame, Response(frame.request, 200, "", "", None, <<>>))
    /\ UNCHANGED <<Recipe_objects, Ingredient_objects, RecipeIngredient_objects,
                   id_seq, otherVars>>

\* its second statement, when the UPDATE has found no row: the INSERT of
\* the instance under its key, which waits while a row of the user for the
\* recipe is being inserted or deleted; when no row stands in its way it
\* has stored the row, uncommitted, and the check of the foreign key waits
\* while the recipe is being deleted.  It is refused when a row has the
\* key by now, the recipe is gone or the user has the recipe on the list
\* again
SaveItemInsert ==
    /\ \E frame \in At({"save_item_insert", "save_item_insert_checks"}) :
        LET row == frame.locals.item
            checks == frame.pc = "save_item_insert_checks"
        IN  /\ checks \/ ~EntryUniqueWaits(frame, row)
            /\ IF /\ row.pk \notin Pks(ShoppingList_objects)
                  /\ EntriesOf(row.user, row.recipe) = {}
                  /\ EntryForeignKeyWaits(frame, row)
               THEN /\ ~checks
                    /\ GoesOn(frame, [frame EXCEPT !.pc = "save_item_insert_checks"])
                    /\ UNCHANGED ShoppingList_objects
               ELSE IF \/ row.pk \in Pks(ShoppingList_objects)
                       \/ RecipeMissing(row.recipe)
                       \/ unique_together(ShoppingList_objects, row)
                    THEN /\ Ends(frame, ServerError(frame.request, "IntegrityError"))
                         /\ UNCHANGED ShoppingList_objects
               ELSE /\ ShoppingList_objects' = ShoppingList_objects \cup {row}
                    /\ Ends(frame, Response(frame.request, 200, "", "", None, <<>>))
    /\ UNCHANGED <<Recipe_objects, Ingredient_objects, RecipeIngredient_objects,
                   id_seq, otherVars>>

-----------------------------------------------------------------------------
(* create, update, partial_update and destroy of the IngredientViewSet     *)
(* (api_views.py 103-111)                                                  *)

\* whether the UniqueValidator of the name field (unique=True, models.py 8)
\* refuses the name for the instance with the key (0 for a new one)
NameTaken(name, pk) == \E row \in Named(Ingredient_objects, name) : row.pk # pk

\* create takes up one request: the validation of the posted data, in
\* which the UniqueValidator looks the name up
CreateIngredientOf(requests) ==
    /\ BagCardinality(inflight) < MaxInflight
    /\ \E request \in requests :
        IF request.user = AnonymousUser THEN Unauthenticated(request)
        ELSE IF NameTaken(request.name, 0)
             THEN Declined(Response(request, 400, "", "", None, <<>>))
        ELSE /\ Starts(Frame(request, "insert_ingredient", [ingredient |-> None]))
             /\ UNCHANGED <<Tables, id_seq>>
    /\ UNCHANGED otherVars

\* serializer.save() of create: the INSERT, which draws the key of the
\* row, whether or not it stores the row, and waits while a row with the
\* name is being inserted or deleted.  It is refused when the name has
\* been taken meanwhile
InsertIngredient ==
    /\ \E frame \in At({"insert_ingredient", "insert_ingredient_waits"}) :
        LET begins == frame.pc = "insert_ingredient"
            row == IF begins
                   THEN [pk |-> id_seq.Ingredient + 1, name |-> frame.request.name,
                         unit |-> frame.request.unit]
                   ELSE frame.locals.ingredient
        IN  /\ begins => id_seq.Ingredient < MaxIngredients
            /\ IF begins THEN nextval("Ingredient") ELSE UNCHANGED id_seq
            /\ IF IngredientWriteWaits(frame, row)
               THEN /\ begins
                    /\ GoesOn(frame, Frame(frame.request, "insert_ingredient_waits",
                                           [ingredient |-> row]))
                    /\ UNCHANGED Ingredient_objects
               ELSE IF NameTaken(row.name, 0)
                    THEN /\ Ends(frame, ServerError(frame.request, "IntegrityError"))
                         /\ UNCHANGED Ingredient_objects
               ELSE /\ Ingredient_objects' = Ingredient_objects \cup {row}
                    /\ Ends(frame, Response(frame.request, 201, "", "", None, <<>>))
    /\ UNCHANGED <<Recipe_objects, RecipeIngredient_objects, ShoppingList_objects,
                   otherVars>>

\* update, partial_update and destroy take up one request: get_object().
\* A partial_update posts the unit only, which no validator looks up.
\* Model.delete() of destroy runs a transaction, for rows of
\* RecipeIngredient refer to the ingredient.
IngredientDetailOf(requests) ==
    /\ BagCardinality(inflight) < MaxInflight
    /\ \E request \in requests :
        LET found == get(Ingredient_objects, request.pk)
        IN  IF request.user = AnonymousUser THEN Unauthenticated(request)
            ELSE IF found = <<>> THEN Declined(NotFound(request))
            ELSE /\ Starts(
                      IF request.view = "IngredientViewSet.destroy"
                      THEN Frame(request, "delete_ingredient_links",
                                 [ingredient |-> Head(found), deleted |-> NothingDeleted,
                                  pending |-> <<>>])
                      ELSE IF request.view = "IngredientViewSet.update"
                           THEN Frame(request, "validate_ingredient",
                                      [ingredient |->
                                          [Head(found) EXCEPT !.name = request.name,
                                                              !.unit = request.unit]])
                           ELSE Frame(request, "save_ingredient",
                                      [ingredient |->
                                          [Head(found) EXCEPT !.unit = request.unit]]))
                 /\ UNCHANGED <<Tables, id_seq>>
    /\ UNCHANGED otherVars

\* the validation of the data of an update, in which the UniqueValidator
\* looks the name up among the other rows
ValidateIngredient ==
    /\ \E frame \in At({"validate_ingredient"}) :
        IF NameTaken(frame.locals.ingredient.name, frame.locals.ingredient.pk)
        THEN Ends(frame, Response(frame.request, 400, "", "", None, <<>>))
        ELSE GoesOn(frame, [frame EXCEPT !.pc = "save_ingredient"])
    /\ UNCHANGED <<Tables, id_seq, otherVars>>

\* serializer.save() of update and partial_update, the first statement of
\* Model.save(): the UPDATE of the row with the key of the instance, which
\* waits while the row is being deleted and, when it has the row, while a
\* row with the name is being inserted or deleted.  It is refused when
\* another row has the name
SaveIngredient ==
    /\ \E frame \in At({"save_ingredient", "save_ingredient_waits"}) :
        LET row == frame.locals.ingredient
            pks == {row.pk} \cap Pks(Ingredient_objects)
            found == Found(frame, "save_ingredient_waits", pks)
            stored == {other \in Ingredient_objects : other.pk \in found}
        IN  \E left \in Lefts(frame, "save_ingredient_waits", pks,
                              HeldBeside(frame, "Ingredient")) :
                IF left # <<>>
                THEN /\ GoesOn(frame, Frame(frame.request, "save_ingredient_waits",
                                            [ingredient |-> row, pending |-> left]))
                     /\ UNCHANGED Ingredient_objects
                ELSE IF stored = {}
                     THEN /\ GoesOn(frame, Frame(frame.request, "save_ingredient_insert",
                                                 [ingredient |-> row]))
                          /\ UNCHANGED Ingredient_objects
                ELSE /\ ~IngredientWriteWaits(frame, row)
                     /\ IF NameTaken(row.name, row.pk)
                        THEN /\ Ends(frame, ServerError(frame.request, "IntegrityError"))
                             /\ UNCHANGED Ingredient_objects
                        ELSE /\ Ingredient_objects' =
                                    (Ingredient_objects \ stored) \cup {row}
                             /\ Ends(frame, Response(frame.request, 200, "", "", None,
                                                     <<>>))
    /\ UNCHANGED <<Recipe_objects, RecipeIngredient_objects, ShoppingList_objects,
                   id_seq, otherVars>>

\* its second statement, when the UPDATE has found no row: the INSERT of
\* the instance under its key, refused when a row has the key or the name
\* by now
SaveIngredientInsert ==
    /\ \E frame \in At({"save_ingredient_insert"}) :
        LET row == frame.locals.ingredient
        IN  /\ ~IngredientWriteWaits(frame, row)
            /\ IF row.pk \in Pks(Ingredient_objects) \/ NameTaken(row.name, row.pk)
               THEN /\ Ends(frame, ServerError(frame.request, "IntegrityError"))
                    /\ UNCHANGED Ingredient_objects
               ELSE /\ Ingredient_objects' = Ingredient_objects \cup {row}
                    /\ Ends(frame, Response(frame.request, 200, "", "", None, <<>>))
    /\ UNCHANGED <<Recipe_objects, RecipeIngredient_objects, ShoppingList_objects,
                   id_seq, otherVars>>

\* instance.delete() of destroy, the first statement of the transaction:
\* the DELETE of the RecipeIngredient rows of the ingredient.  It finds the
\* rows stored when it begins and waits at one that is being deleted
DeleteIngredientLinks ==
    /\ \E frame \in At({"delete_ingredient_links", "delete_ingredient_links_waits"}) :
        \E next \in Deletes(frame, "RecipeIngredient",
                            Pks(CascadeIngredient(RecipeIngredient_objects,
                                                  frame.locals.ingredient.pk)),
                            "delete_ingredient_row", "delete_ingredient_links_waits") :
            GoesOn(frame, next)
    /\ UNCHANGED <<Tables, id_seq, otherVars>>

\* the second: the DELETE of the row with the key of the instance
DeleteIngredient ==
    /\ \E frame \in At({"delete_ingredient_row", "delete_ingredient_row_waits"}) :
        \E next \in Deletes(frame, "Ingredient",
                            {frame.locals.ingredient.pk} \cap Pks(Ingredient_objects),
                            "commit_ingredient", "delete_ingredient_row_waits") :
            GoesOn(frame, next)
    /\ UNCHANGED <<Tables, id_seq, otherVars>>

\* the COMMIT: a RecipeIngredient row that refers to the ingredient and
\* was stored after the DELETE of its table began has the database refuse
\* the commit, which leaves every row as it was and raises IntegrityError;
\* otherwise the rows are gone and the view answers 204
CommitDeleteIngredient ==
    /\ \E frame \in At({"commit_ingredient"}) :
        LET deleted == frame.locals.deleted
        IN  /\ ~CommitWaits(frame)
            /\ IF LeftLinks(deleted) # {}
               THEN /\ Ends(frame, ServerError(frame.request, "IntegrityError"))
                    /\ UNCHANGED Tables
               ELSE /\ Ingredient_objects' =
                           Without(Ingredient_objects, deleted.Ingredient)
                    /\ RecipeIngredient_objects' =
                           Without(RecipeIngredient_objects, deleted.RecipeIngredient)
                    /\ UNCHANGED <<Recipe_objects, ShoppingList_objects>>
                    /\ EndsDeleting(frame,
                                    Response(frame.request, 204, "", "", None, <<>>),
                                    deleted)
    /\ UNCHANGED <<id_seq, otherVars>>

-----------------------------------------------------------------------------
(* SpecImport: requests to parse_recipe_view on a database that starts     *)
(* empty.                                                                  *)

InitImport ==
    /\ IdleSite
    /\ IdlePure /\ IdleParser /\ IdleDirect /\ IdlePair

ParseRecipeView == ParseRecipeViewOf(ImportRequests)

NextImport ==
    \/ ParseRecipeView
    \/ FetchAndStoreRecipe
    \/ GetOrCreateIngredientGet
    \/ GetOrCreateIngredientCreate
    \/ GetOrCreateIngredientCommit
    \/ CreateRecipeIngredient

SpecImport == InitImport /\ [][NextImport]_vars

-----------------------------------------------------------------------------
(* SpecShop: the shopping-list requests, on two stored recipes.            *)

\* the recipes stored when the requests arrive
ShopRecipes ==
    { [pk |-> 1, title |-> "Borx", description |-> "Sup", instructions |-> "Varit",
       author |-> "anna", cooking_time |-> 45, servings |-> 4, source_url |-> None],
      [pk |-> 2, title |-> "Plov", description |-> "Ris", instructions |-> "Tuwit",
       author |-> "boris", cooking_time |-> 60, servings |-> 6, source_url |-> None] }

\* the primary keys requests ask for; no recipe has the last
RequestedPks == {1, 2, 3}

AddRequests == [view : AddViews, user : Users \cup {AnonymousUser}, pk : RequestedPks]

RemoveRequests ==
    [view : RemoveViews, user : Users \cup {AnonymousUser}, pk : RequestedPks]

ClearRequests == [view : ClearViews, user : Users \cup {AnonymousUser}]

\* the requests for one row of the list, by its key
ItemRequests ==
    [view : {"ShoppingListViewSet.destroy", "ShoppingListViewSet.update"},
     user : Users \cup {AnonymousUser}, pk : {1, 2}]

\* the requests that post a row of the list
CreateItemRequests ==
    [view : {"ShoppingListViewSet.create"}, user : {"boris", AnonymousUser}]

\* the keys the sequences have given out when ShopRecipes are stored
ShopKeys == [Recipe |-> 2, Ingredient |-> 0, RecipeIngredient |-> 0, ShoppingList |-> 0]

InitShop ==
    /\ Recipe_objects = ShopRecipes
    /\ Ingredient_objects = {}
    /\ RecipeIngredient_objects = {}
    /\ ShoppingList_objects = {}
    /\ id_seq = ShopKeys
    /\ inflight = EmptyBag
    /\ http = None
    /\ IdlePure /\ IdleParser /\ IdleDirect /\ IdlePair

AddToShoppingList == AddToShoppingListOf(AddRequests)

RemoveFromShoppingList == RemoveFromShoppingListOf(RemoveRequests)

ClearShoppingList == ClearShoppingListOf(ClearRequests)

ShoppingListItem == ShoppingListItemOf(ItemRequests)

CreateItem == CreateItemOf(CreateItemRequests)

NextShop ==
    \/ AddToShoppingList
    \/ GetOrCreateGet
    \/ GetOrCreateCreate
    \/ GetOrCreateCommit
    \/ RemoveFromShoppingList
    \/ DeleteItems
    \/ CommitDeleteItems
    \/ ClearShoppingList
    \/ ClearShoppingListGoesOn
    \/ CommitClearShoppingList
    \/ CreateItem
    \/ ShoppingListItem
    \/ DeleteItem
    \/ SaveItem
    \/ SaveItemInsert

SpecShop == InitShop /\ [][NextShop]_vars

-----------------------------------------------------------------------------
(* SpecAuthor: the requests that change a stored recipe: RecipeUpdateView  *)
(* and RecipeDeleteView (their POST handlers), add_ingredient_to_recipe,   *)
(* remove_ingredient_from_recipe, and update, partial_update and destroy   *)
(* of the REST RecipeViewSet.                                              *)

\* the ingredient and the recipe ingredients stored with ShopRecipes
StoredIngredients == { [pk |-> 1, name |-> "muka", unit |-> "g"] }

StoredLinks == { Link(1, 1, 1, "500"), Link(2, 2, 1, "300") }

\* the title a client posts: a new one, or none (the field is required)
PostedTitles == {"Ragu", ""}

\* the quantity a client posts: a number, or none (the field is required)
PostedQuantities == {"200", ""}

\* the keys the requests ask for: anna's recipe and a key no recipe has
AuthorPks == {1, 3}

UpdateRequests ==
    [view : {"RecipeUpdateView", "RecipeViewSet.update", "RecipeViewSet.partial_update"},
     user : Users \cup {AnonymousUser}, pk : AuthorPks, title : PostedTitles]

DeleteRequests ==
    [view : {"RecipeDeleteView", "RecipeViewSet.destroy"},
     user : Users \cup {AnonymousUser}, pk : AuthorPks]

AddIngredientRequests ==
    [view : {"add_ingredient_to_recipe"}, user : Users \cup {AnonymousUser},
     pk : AuthorPks, method : {"GET", "POST"}, ingredient_name : {"sol"},
     unit : {"kg"}, quantity : PostedQuantities]

RemoveIngredientRequests ==
    [view : {"remove_ingredient_from_recipe"}, user : Users \cup {AnonymousUser},
     pk : AuthorPks, ingredient_pk : {1, 2}]

InitAuthor ==
    /\ Recipe_objects = ShopRecipes
    /\ Ingredient_objects = StoredIngredients
    /\ RecipeIngredient_objects = StoredLinks
    /\ ShoppingList_objects = {Entry(1, "boris", 1), Entry(2, "anna", 2)}
    /\ id_seq = [Recipe |-> 2, Ingredient |-> 1, RecipeIngredient |-> 2,
                 ShoppingList |-> 2]
    /\ inflight = EmptyBag
    /\ http = None
    /\ IdlePure /\ IdleParser /\ IdleDirect /\ IdlePair

UpdateRecipe == UpdateRecipeOf(UpdateRequests)

DeleteRecipe == DeleteRecipeOf(DeleteRequests)

AddIngredientToRecipe == AddIngredientToRecipeOf(AddIngredientRequests)

RemoveIngredientFromRecipe == RemoveIngredientFromRecipeOf(RemoveIngredientRequests)

NextAuthor ==
    \/ UpdateRecipe
    \/ UpdateContext
    \/ SaveRecipe
    \/ SaveRecipeInsert
    \/ DeleteRecipe
    \/ DeleteRecipeLinks
    \/ DeleteRecipeEntries
    \/ DeleteRecipeRow
    \/ CommitDeleteRecipe
    \/ AddIngredientToRecipe
    \/ GetOrCreateIngredientGet
    \/ GetOrCreateIngredientCreate
    \/ GetOrCreateIngredientCommit
    \/ GetOrCreateLinkGet
    \/ GetOrCreateLinkCreate
    \/ GetOrCreateLinkCommit
    \/ SaveLink
    \/ SaveLinkInsert
    \/ RemoveIngredientFromRecipe
    \/ RemoveIngredientGet
    \/ RemoveIngredientDelete

SpecAuthor == InitAuthor /\ [][NextAuthor]_vars

-----------------------------------------------------------------------------
(* SpecUpsert: RecipeIngredientForm.save called on valid forms, for the    *)
(* recipes of ShopRecipes, with either value of commit.                    *)

\* a call of save(recipe, commit) on a form whose cleaned_data holds the
\* ingredient name, the unit and the quantity
SaveCalls ==
    [view : {"RecipeIngredientForm.save"}, pk : {1, 2},
     ingredient_name : {"muka"}, unit : {"g", "kg"},
     quantity : {"100", "250"}, commit : BOOLEAN]

InitUpsert == InitShop

\* save is called (forms.py 77-80)
SaveForm ==
    /\ BagCardinality(inflight) < MaxInflight
    /\ \E call \in SaveCalls :
        Starts(Frame(call, "get_ingredient",
                     Storing(Head(get(Recipe_objects, call.pk)), cleaned_data(call),
                             None, None)))
    /\ UNCHANGED <<Tables, id_seq, otherVars>>

NextUpsert ==
    \/ SaveForm
    \/ GetOrCreateIngredientGet
    \/ GetOrCreateIngredientCreate
    \/ GetOrCreateIngredientCommit
    \/ GetOrCreateLinkGet
    \/ GetOrCreateLinkCreate
    \/ GetOrCreateLinkCommit
    \/ SaveLink

SpecUpsert == InitUpsert /\ [][NextUpsert]_vars

-----------------------------------------------------------------------------
(* SpecSite: the requests that write the tables, two of them at a time, on *)
(* a database that holds anna's recipe with one ingredient, on boris's     *)
(* shopping list: a recipe is created and one imported, either recipe is   *)
(* deleted, anna's is given and relieved of an ingredient, put on and      *)
(* taken off boris's shopping list, and the ingredients are created,       *)
(* changed and deleted through the REST API. The update of a recipe runs   *)
(* under SpecAuthor.                                                       *)

\* boris creates a recipe, with a title and without one ...
CreateRequests ==
    [view : {"RecipeCreateView", "RecipeViewSet.create"}, user : {"boris"},
     title : PostedTitles]

\* ... and anna imports a page that has a heading and no list of
\* ingredients, which parse_recipe fills with its two placeholders
SiteImportRequests ==
    [view : {"parse_recipe_view"}, user : {"anna"}, method : {"POST"},
     url : {"https://example.com/borx"},
     answer : {Answer("", 200, TRUE, <<Node("h1", "", "", {}, "Bliny", <<>>)>>)}]

\* anna deletes her recipe and the recipe that gets the next key
SiteDeleteRequests ==
    [view : {"RecipeViewSet.destroy"}, user : {"anna"}, pk : {1, 2}]

SiteAddIngredientRequests ==
    [view : {"add_ingredient_to_recipe"}, user : {"anna"}, pk : {1},
     method : {"POST"}, ingredient_name : {"muka"}, unit : {"g"}, quantity : {"500"}]

SiteRemoveIngredientRequests ==
    [view : {"remove_ingredient_from_recipe"}, user : {"anna"}, pk : {1},
     ingredient_pk : {1}]

SiteAddRequests ==
    [view : {"RecipeViewSet.add_to_shopping_list"}, user : {"boris"}, pk : {1}]

SiteRemoveRequests ==
    [view : {"RecipeViewSet.remove_from_shopping_list"}, user : {"boris"}, pk : {1}]

SiteClearRequests == [view : {"ShoppingListViewSet.clear"}, user : {"boris"}]

SiteItemRequests ==
    [view : {"ShoppingListViewSet.destroy", "ShoppingListViewSet.update"},
     user : {"boris"}, pk : {1}]

SiteCreateItemRequests == [view : {"ShoppingListViewSet.create"}, user : {"boris"}]

\* boris posts the ingredient the database holds: the name is taken, until
\* the ingredient is deleted
SiteCreateIngredientRequests ==
    [view : {"IngredientViewSet.create"}, user : {"boris"}, name : {"muka"},
     unit : {"g"}]

\* ... and puts, patches and deletes it; the values sent are the stored ones
SiteIngredientRequests ==
    [view : {"IngredientViewSet.update", "IngredientViewSet.partial_update",
             "IngredientViewSet.destroy"},
     user : {"boris"}, pk : {1}, name : {"muka"}, unit : {"g"}]

InitSite ==
    /\ Recipe_objects = {recipe \in ShopRecipes : recipe.author = "anna"}
    /\ Ingredient_objects = StoredIngredients
    /\ RecipeIngredient_objects = {Link(1, 1, 1, "500")}
    /\ ShoppingList_objects = {Entry(1, "boris", 1)}
    /\ id_seq = [Recipe |-> 1, Ingredient |-> 1, RecipeIngredient |-> 1,
                 ShoppingList |-> 1]
    /\ inflight = EmptyBag
    /\ http = None
    /\ IdlePure /\ IdleParser /\ IdleDirect /\ IdlePair

CreateRecipe == CreateRecipeOf(CreateRequests)

ImportRecipe == ParseRecipeViewOf(SiteImportRequests)

SiteDeleteRecipe == DeleteRecipeOf(SiteDeleteRequests)

SiteAddIngredient == AddIngredientToRecipeOf(SiteAddIngredientRequests)

SiteRemoveIngredient == RemoveIngredientFromRecipeOf(SiteRemoveIngredientRequests)

SiteAddToShoppingList == AddToShoppingListOf(SiteAddRequests)

SiteRemoveFromShoppingList == RemoveFromShoppingListOf(SiteRemoveRequests)

SiteClearShoppingList == ClearShoppingListOf(SiteClearRequests)

SiteShoppingListItem == ShoppingListItemOf(SiteItemRequests)

SiteCreateItem == CreateItemOf(SiteCreateItemRequests)

SiteCreateIngredient == CreateIngredientOf(SiteCreateIngredientRequests)

SiteIngredientDetail == IngredientDetailOf(SiteIngredientRequests)

NextSite ==
    \/ CreateRecipe
    \/ ImportRecipe
    \/ FetchAndStoreRecipe
    \/ SiteDeleteRecipe
    \/ DeleteRecipeLinks
    \/ DeleteRecipeEntries
    \/ DeleteRecipeRow
    \/ CommitDeleteRecipe
    \/ SiteAddIngredient
    \/ GetOrCreateIngredientGet
    \/ GetOrCreateIngredientCreate
    \/ GetOrCreateIngredientCommit
    \/ CreateRecipeIngredient
    \/ GetOrCreateLinkGet
    \/ GetOrCreateLinkCreate
    \/ GetOrCreateLinkCommit
    \/ SaveLink
    \/ SaveLinkInsert
    \/ SiteRemoveIngredient
    \/ RemoveIngredientGet
    \/ RemoveIngredientDelete
    \/ SiteAddToShoppingList
    \/ GetOrCreateGet
    \/ GetOrCreateCreate
    \/ GetOrCreateCommit
    \/ SiteRemoveFromShoppingList
    \/ DeleteItems
    \/ CommitDeleteItems
    \/ SiteClearShoppingList
    \/ ClearShoppingListGoesOn
    \/ CommitClearShoppingList
    \/ SiteCreateItem
    \/ SiteShoppingListItem
    \/ DeleteItem
    \/ SaveItem
    \/ SaveItemInsert
    \/ SiteCreateIngredient
    \/ InsertIngredient
    \/ SiteIngredientDetail
    \/ ValidateIngredient
    \/ SaveIngredient
    \/ SaveIngredientInsert
    \/ DeleteIngredientLinks
    \/ DeleteIngredient
    \/ CommitDeleteIngredient

SpecSite == InitSite /\ [][NextSite]_vars

-----------------------------------------------------------------------------
(* Properties of the site                                                  *)

\* the keys of the rows the step removes from the tables
Gone ==
    [Recipe |-> Pks(Recipe_objects) \ Pks(Recipe_objects'),
     Ingredient |-> Pks(Ingredient_objects) \ Pks(Ingredient_objects'),
     RecipeIngredient |-> Pks(RecipeIngredient_objects) \ Pks(RecipeIngredient_objects'),
     ShoppingList |-> Pks(ShoppingList_objects) \ Pks(ShoppingList_objects')]

\* the requests in flight that the step answers
Ended ==
    {frame \in BagToSet(inflight) :
        inflight' = Forgetting(inflight (-) SetToBag({frame}), Gone)}

\* the step answers a request of one of the views
Answers(views) ==
    /\ http' # None
    /\ http'.request.view \in views

\* how many rows of ShoppingList a user has for a recipe
Copies(rows, user, recipe) ==
    Cardinality({entry \in rows : entry.user = user /\ entry.recipe = recipe})

\* the rows of ShoppingList of the other users and the other recipes
Others(rows, user, recipe) ==
    {entry \in rows : ~(entry.user = user /\ entry.recipe = recipe)}

-----------------------------------------------------------------------------
(* Properties of the import view (SpecImport)                              *)

\* a request of a logged-in user that posts a URL
IsImportPost(request) ==
    /\ request.view = "parse_recipe_view"
    /\ request.user # AnonymousUser
    /\ request.method = "POST"

\* the tables the import writes
ImportTables == <<Recipe_objects, Ingredient_objects, RecipeIngredient_objects>>

\* the step answers a posted import whose form is invalid or whose parse
\* returns None
AnswersFailedImport ==
    /\ Answers({"parse_recipe_view"})
    /\ IsImportPost(http'.request)
    /\ \/ ~is_valid(http'.request.url)
       \/ parse_recipe(http'.request.answer) = None

\* C17 as claimed: when parse_recipe returns None, or the posted URL form is
\* invalid, parse_recipe_view reports the import-failed error and creates no
\* Recipe, Ingredient or RecipeIngredient row.
C17_FailureReported ==
    [][AnswersFailedImport
       => /\ ImportFailedMessage \in {http'.messages[k] : k \in 1..Len(http'.messages)}
          /\ UNCHANGED ImportTables]_vars

\* C17, amended: when parse_recipe returns None for a valid URL form the view
\* renders the import page again with the import-failed error message; when
\* the form is invalid it renders the bound form again with no message; in
\* both cases no Recipe, Ingredient or RecipeIngredient row is created.
C17_FailureLeavesStorage ==
    [][AnswersFailedImport
       => /\ http'.status = 200
          /\ http'.template = "recipes/parse_recipe.html"
          /\ http'.form = Form("ParseRecipeForm", TRUE, None)
          /\ http'.messages = IF is_valid(http'.request.url)
                              THEN <<ImportFailedMessage>> ELSE <<>>
          /\ UNCHANGED ImportTables]_vars

\* after one import was stored, a parse that returned None was reported and
\* the stored rows are still there
C17_Witness ==
    /\ http # None
    /\ IsImportPost(http.request)
    /\ is_valid(http.request.url)
    /\ http.request.answer.status = 404
    /\ http.messages = <<ImportFailedMessage>>
    /\ Cardinality(Recipe_objects) = 1
    /\ Cardinality(RecipeIngredient_objects) = 2
    /\ inflight = EmptyBag

\* C18 as claimed: after a successful parse the import view presents the
\* extracted data as an editable recipe form filled with it, for the user to
\* review and correct.
C18_DraftFormShown ==
    (/\ http # None
     /\ IsImportPost(http.request)
     /\ is_valid(http.request.url)
     /\ parse_recipe(http.request.answer) # None)
    => /\ http.status = 200
       /\ http.form # None
       /\ http.form.class = "RecipeForm"
       /\ http.form.initial = parse_recipe(http.request.answer)

\* C26 as claimed: the import stores all or nothing: when parse_recipe_view
\* has handled a successful parse either the Recipe and one RecipeIngredient
\* for each parsed ingredient are stored, or no row of that import is, also
\* when two parsed ingredients have the same name.
C26_ImportAllOrNothing ==
    [][\A frame \in Ended :
          (frame.request.view = "parse_recipe_view" /\ frame.locals # None) =>
              LET pk == frame.locals.recipe.pk
                  links == {link \in RecipeIngredient_objects' : link.recipe = pk}
              IN  \/ /\ pk \in Pks(Recipe_objects')
                     /\ Cardinality(links)
                            = Len(parse_recipe(frame.request.answer).ingredients)
                  \/ /\ pk \notin Pks(Recipe_objects')
                     /\ links = {}]_vars

-----------------------------------------------------------------------------
(* Properties of the shopping list (SpecShop)                              *)

\* C19: adding a recipe to a shopping list is idempotent: whatever the
\* requests and however they interleave, no (user, recipe) entry is ever
\* stored twice; when an add of a signed-in user through the web view or the
\* REST action succeeds exactly one entry (u, r) exists and no other entry
\* has changed; the REST action answers 201 exactly when the call created the
\* entry and 200 when it was there already.
C19_AddIdempotent ==
    /\ [](\A user \in Users, pk \in RequestedPks :
              Copies(ShoppingList_objects, user, pk) <= 1)
    /\ [][(Answers(AddViews) /\ http'.request.user \in Users
                /\ http'.status \in {302, 201, 200}) =>
            LET user == http'.request.user
                pk == http'.request.pk
                created == Copies(ShoppingList_objects', user, pk)
                               = Copies(ShoppingList_objects, user, pk) + 1
            IN  /\ Copies(ShoppingList_objects', user, pk) = 1
                /\ Others(ShoppingList_objects', user, pk)
                       = Others(ShoppingList_objects, user, pk)
                /\ ~created => ShoppingList_objects' = ShoppingList_objects
                /\ http'.request.view = "RecipeViewSet.add_to_shopping_list" =>
                       /\ http'.status = 201 <=> created
                       /\ http'.status = 200 <=> ~created]_vars

\* an add of the REST action is answered 200 for an entry that is stored
\* once, under the first key, when the sequence has given out two keys and
\* no other entry is stored
C19_Witness ==
    /\ http # None
    /\ http.request = [view |-> "RecipeViewSet.add_to_shopping_list",
                       user |-> "anna", pk |-> 1]
    /\ http.status = 200
    /\ http.messages = <<ShopMessage("exists")>>
    /\ ShoppingList_objects = {Entry(1, "anna", 1)}
    /\ id_seq.ShoppingList = 2

\* where a remove or a clear is whose DELETE has begun
DeletePcs == {"delete_items_waits", "commit_delete_items", "clear_waits", "commit_clear"}

\* the step is the beginning of the DELETE of a remove or of a clear, which
\* takes the request to next
BeginsDelete(next) ==
    \/ /\ next.pc \in {"clear_waits", "commit_clear"}
       /\ inflight' = inflight (+) SetToBag({next})
    \/ /\ next.pc \in {"delete_items_waits", "commit_delete_items"}
       /\ \E frame \in At({"delete_items"}) :
              /\ frame.request = next.request
              /\ inflight' = (inflight (-) SetToBag({frame})) (+) SetToBag({next})

\* the step is the DELETE of the request going on after it has waited
GoesOnDeleting(frame, next) ==
    /\ frame.pc \in {"delete_items_waits", "clear_waits"}
    /\ next.pc \in DeletePcs
    /\ next.request = frame.request
    /\ inflight' = (inflight (-) SetToBag({frame})) (+) SetToBag({next})

\* the keys of the rows the DELETE of a request has deleted or has still
\* to come to
Aims(frame) == frame.locals.deleted.ShoppingList \cup Keys(frame.locals.pending)

\* the rows of ShoppingList that the request of a remove or a clear asks to
\* delete: those of its user for its recipe, or all those of its user
Scope(rows, request) ==
    {entry \in rows : /\ entry.user = request.user
                      /\ request.view \in RemoveViews => entry.recipe = request.pk}

\* C20 as claimed: deletions are scoped to the requesting user: a remove of
\* (u, r) that is answered leaves no entry (u, r) and changes no other
\* entry, a clear of u that is answered leaves u without entries and every
\* other user's entries unchanged, and remove_from_shopping_list and
\* clear_shopping_list are answered with success (a redirect) whether or not
\* there was anything to delete.
C20_DeletesScoped ==
    [][/\ \A frame \in Ended :
              frame.request.view \in RemoveViews =>
                  /\ Copies(ShoppingList_objects', frame.request.user,
                            frame.request.pk) = 0
                  /\ Others(ShoppingList_objects', frame.request.user, frame.request.pk)
                         = Others(ShoppingList_objects, frame.request.user,
                                  frame.request.pk)
                  /\ frame.request.view = "remove_from_shopping_list" =>
                         http'.status = 302 /\ http'.redirect = "recipe_detail"
       /\ (Answers(ClearViews) /\ http'.request.user \in Users) =>
              /\ filter_user_delete(ShoppingList_objects', http'.request.user)
                     = ShoppingList_objects'
              /\ filter_user_delete(ShoppingList_objects, http'.request.user)
                     = filter_user_delete(ShoppingList_objects', http'.request.user)
              /\ http'.request.view = "clear_shopping_list" =>
                     http'.status = 302 /\ http'.redirect = "shopping_list"]_vars

\* C20, amended: deletions are scoped to the requesting user: the DELETE of
\* a remove of (u, r) finds every entry (u, r) that is stored when it
\* begins and no other, the DELETE of a clear of u every entry of u that is
\* stored when it begins and no other; it deletes of them those that are
\* still stored when it comes to them, having waited for the entries that
\* another request is deleting, and none stored since it began; the COMMIT
\* that follows removes the entries it has deleted and changes no other, so
\* that an entry of u that an add has stored since the DELETE began stays
\* and every entry of another user stays; when nothing was stored for the
\* request's scope since the DELETE began, the remove leaves no entry
\* (u, r) and the clear leaves u without entries; and
\* remove_from_shopping_list and clear_shopping_list are answered with
\* success (a redirect) whether or not there was anything to delete.
C20_DeletesStoredScope ==
    /\ [](\A frame \in At(DeletePcs) :
              Aims(frame) \subseteq Pks(Scope(ShoppingList_objects, frame.request)))
    /\ [][/\ \A next \in BagToSet(inflight') :
                 BeginsDelete(next) =>
                     /\ Aims(next) = Pks(Scope(ShoppingList_objects, next.request))
                     /\ ShoppingList_objects' = ShoppingList_objects
          /\ \A frame \in At(DeletePcs), next \in BagToSet(inflight') :
                 GoesOnDeleting(frame, next) =>
                     /\ frame.locals.deleted.ShoppingList
                            \subseteq next.locals.deleted.ShoppingList
                     /\ Aims(next) = Aims(frame)
                     /\ ShoppingList_objects' = ShoppingList_objects
          /\ \A frame \in Ended :
                 frame.pc \in {"commit_delete_items", "commit_clear"} =>
                     /\ frame.locals.pending = <<>>
                     /\ frame.locals.deleted.ShoppingList
                            \cap Pks(ShoppingList_objects') = {}
                     /\ ShoppingList_objects' \subseteq ShoppingList_objects
                     /\ ShoppingList_objects \ ShoppingList_objects'
                            \subseteq Scope(ShoppingList_objects, frame.request)
                     /\ Pks(ShoppingList_objects \ ShoppingList_objects')
                            = frame.locals.deleted.ShoppingList
                     /\ Pks(Scope(ShoppingList_objects, frame.request))
                                \subseteq frame.locals.deleted.ShoppingList =>
                            Scope(ShoppingList_objects', frame.request) = {}
                     /\ frame.request.view = "remove_from_shopping_list" =>
                            http'.status = 302 /\ http'.redirect = "recipe_detail"
                     /\ frame.request.view = "clear_shopping_list" =>
                            http'.status = 302 /\ http'.redirect = "shopping_list"
          /\ \A frame \in Ended :
                 frame.request.view \in RemoveViews \cup ClearViews =>
                     frame.pc \in {"commit_delete_items", "commit_clear"}]_vars

\* anna's clear was answered with the redirect: it has deleted the entry
\* she had for recipe 1 when its DELETE ran, and the entry for recipe 2 that
\* her add stored before the COMMIT is still there
C20_Witness ==
    /\ http # None
    /\ http.request = [view |-> "clear_shopping_list", user |-> "anna"]
    /\ http.status = 302
    /\ ShoppingList_objects = {Entry(2, "anna", 2)}
    /\ id_seq.ShoppingList = 2
    /\ inflight = EmptyBag

-----------------------------------------------------------------------------
(* Properties of the recipe changes (SpecAuthor)                           *)

\* the recipe with the key and the rows of RecipeIngredient that refer to it
RecipeWithIngredients(recipes, links, pk) ==
    <<{recipe \in recipes : recipe.pk = pk}, {link \in links : link.recipe = pk}>>

\* C27 as claimed: only the author of a recipe can change it: an update, a
\* delete, an add-ingredient or a remove-ingredient that a signed-in user
\* who is not the author sends through the views or the REST RecipeViewSet
\* leaves the recipe and its ingredients as they are, and a valid update or
\* a delete sent by the author takes effect.
C27_AuthorOnly ==
    [][\A frame \in Ended : \A recipe \in Recipe_objects :
          (frame.request.pk = recipe.pk /\ frame.request.user \in Users) =>
              /\ frame.request.user # recipe.author =>
                     RecipeWithIngredients(Recipe_objects', RecipeIngredient_objects',
                                           recipe.pk)
                         = RecipeWithIngredients(Recipe_objects,
                                                 RecipeIngredient_objects, recipe.pk)
              /\ (frame.request.user = recipe.author
                     /\ frame.request \in DeleteRequests) =>
                     get(Recipe_objects', recipe.pk) = <<>>
              /\ (frame.request.user = recipe.author
                     /\ frame.request \in UpdateRequests
                     /\ frame.request.title # "") =>
                     get(Recipe_objects', recipe.pk)
                         = <<[recipe EXCEPT !.title = frame.request.title]>>]_vars

-----------------------------------------------------------------------------
(* Properties of RecipeIngredientForm.save (SpecUpsert)                    *)

\* the RecipeIngredient rows of a recipe and an ingredient name
PairRows(links, ingredients, recipe, name) ==
    {link \in links : /\ link.recipe = recipe
                      /\ \E row \in Named(ingredients, name) : row.pk = link.ingredient}

\* what every step and every save does to the Ingredient table and to the
\* other pairs: an Ingredient row is never changed, and a new one has the
\* name and the unit of a save in flight; when a save returns the name has
\* one Ingredient row and the pair of the call one RecipeIngredient row,
\* and the step has left the rows of the other pairs as they were
SaveKeepsOneRow ==
    /\ Ingredient_objects \subseteq Ingredient_objects'
    /\ \A row \in Ingredient_objects' \ Ingredient_objects :
           \E frame \in BagToSet(inflight) :
               /\ row.name = frame.request.ingredient_name
               /\ row.unit = frame.request.unit
    /\ \A frame \in Ended :
           LET call == frame.request
           IN  /\ Cardinality(Named(Ingredient_objects', call.ingredient_name)) = 1
               /\ Cardinality(PairRows(RecipeIngredient_objects', Ingredient_objects',
                                       call.pk, call.ingredient_name)) = 1
               /\ RecipeIngredient_objects
                      \ PairRows(RecipeIngredient_objects, Ingredient_objects,
                                 call.pk, call.ingredient_name)
                    = RecipeIngredient_objects'
                      \ PairRows(RecipeIngredient_objects', Ingredient_objects',
                                 call.pk, call.ingredient_name)

\* the row of the pair of the call holds the quantity of the call
SaveStoresQuantity(call) ==
    \A link \in PairRows(RecipeIngredient_objects', Ingredient_objects',
                         call.pk, call.ingredient_name) :
        link.quantity = call.quantity

\* C28 as claimed: RecipeIngredientForm.save is an upsert: after every save
\* there is exactly one RecipeIngredient row for the recipe and the
\* ingredient name, holding the quantity of that (the most recent) save;
\* the Ingredient row is created on first use and later saves with another
\* unit do not change its unit.
C28_UpsertOnEverySave ==
    [][/\ SaveKeepsOneRow
       /\ \A frame \in Ended : SaveStoresQuantity(frame.request)]_vars

\* C28, amended: every save leaves exactly one RecipeIngredient row for the
\* recipe and the ingredient name, and the Ingredient row is created on
\* first use with its unit never changed afterwards. The stored quantity
\* is the quantity of the save when commit is set (the default) or when
\* the save creates the row; a save with commit=False on a pair that has a
\* row leaves the stored row as it was.
C28_UpsertWhenCommitted ==
    [][/\ SaveKeepsOneRow
       /\ \A frame \in Ended :
              IF frame.request.commit
                 \/ PairRows(RecipeIngredient_objects, Ingredient_objects,
                             frame.request.pk, frame.request.ingredient_name) = {}
              THEN SaveStoresQuantity(frame.request)
              ELSE RecipeIngredient_objects' = RecipeIngredient_objects]_vars

\* a committed save came after saves with another unit and another
\* quantity: the ingredient keeps the unit of its first use, the pair of
\* the other recipe keeps the other quantity, the pair saved last has one
\* row with the quantity of the call
C28_Witness ==
    /\ http # None
    /\ http.request.commit
    /\ http.returned \in RecipeIngredient_objects
    /\ http.returned.quantity = http.request.quantity
    /\ \E row \in Named(Ingredient_objects, http.request.ingredient_name) :
           /\ row.unit # http.request.unit
           /\ \E other \in RecipeIngredient_objects :
                  /\ other.ingredient = row.pk
                  /\ other.recipe # http.request.pk
                  /\ other.quantity # http.request.quantity
    /\ Cardinality(PairRows(RecipeIngredient_objects, Ingredient_objects,
                            http.request.pk, http.request.ingredient_name)) = 1
    /\ inflight = EmptyBag

-----------------------------------------------------------------------------
(* Properties of the stored rows (SpecSite)                                *)

\* C29: after any sequence of create, import, delete, add-ingredient,
\* remove-ingredient, shopping-list and ingredient requests, however their
\* statements interleave, every RecipeIngredient row refers to a stored
\* Recipe and a stored Ingredient, every ShoppingList row to a stored Recipe
\* and a user, every Recipe to its author: a deleted recipe leaves no
\* RecipeIngredient row and no ShoppingList row of any user behind.
C29_ReferentialIntegrity ==
    /\ \A link \in RecipeIngredient_objects :
           /\ link.recipe \in Pks(Recipe_objects)
           /\ link.ingredient \in Pks(Ingredient_objects)
    /\ \A entry \in ShoppingList_objects :
           /\ entry.recipe \in Pks(Recipe_objects)
           /\ entry.user \in Users
    /\ \A recipe \in Recipe_objects : recipe.author \in Users
    /\ Pks(Recipe_objects) \subseteq 1..id_seq.Recipe

\* anna's recipe, which had an ingredient and was on boris's shopping list,
\* has just been deleted, and the imported recipe is stored with an
\* ingredient of its own
C29_Witness ==
    /\ http # None
    /\ http.request \in SiteDeleteRequests
    /\ http.request.pk = 1
    /\ http.status = 204
    /\ Pks(Recipe_objects) = {2}
    /\ \E link \in RecipeIngredient_objects : link.recipe = 2
    /\ \A link \in RecipeIngredient_objects : link.recipe # 1
    /\ \A entry \in ShoppingList_objects : entry.recipe # 1

-----------------------------------------------------------------------------
(* The readers of a user's shopping list: shopping_list_view, the          *)
(* aggregated action of the ShoppingListViewSet and                        *)
(* DatabaseService.get_shopping_list_summary_raw.  The two views run one   *)
(* SELECT for the rows of the list and one for the ingredients of each     *)
(* recipe on it, each reading what is stored when it runs; the summary is  *)
(* one statement.  A float is an IEEE 754 double, and the additions of the *)
(* loops are modelled bit for bit.                                         *)

\* the letters of the transliteration in the order of the code points of
\* the Cyrillic letters they stand for
Alphabet ==
    <<"a", "b", "v", "g", "d", "e", "z", "i", "k", "l", "m", "n", "o", "p", "r",
      "s", "t", "u", "q", "c", "w", "x", "y", "f", "h", "j">>

\* ord(c) up to the order
CodePoint(c) == CHOOSE i \in 1..Len(Alphabet) : Alphabet[i] = c

RECURSIVE StrLess(_, _)
\* a < b of two str
StrLess(a, b) ==
    IF b = "" THEN FALSE
    ELSE IF a = "" THEN TRUE
    ELSE IF Ch(a, 1) # Ch(b, 1) THEN CodePoint(Ch(a, 1)) < CodePoint(Ch(b, 1))
    ELSE StrLess(Slice(a, 2, Len(a) + 1), Slice(b, 2, Len(b) + 1))

\* a < b of two tuples (name, unit)
KeyLess(a, b) == StrLess(a[1], b[1]) \/ (a[1] = b[1] /\ StrLess(a[2], b[2]))

RECURSIVE sorted(_)
\* sorted(keys): the keys in ascending order
sorted(keys) ==
    IF keys = {} THEN <<>>
    ELSE LET least == CHOOSE a \in keys : \A b \in keys \ {a} : KeyLess(a, b)
         IN  <<least>> \o sorted(keys \ {least})

\* the value, in hundredths, a quantity has once it is stored: the column
\* is NUMERIC(10, 2) (models.py 77-81) and the database (PostgreSQL,
\* db_service.py 5) rounds further places, a half upwards
Hundredths(quantity) ==
    LET dots == {i \in 1..Len(quantity) : Ch(quantity, i) = "."}
    IN  IF dots = {} THEN StrToNat(quantity) * 100
        ELSE LET dot == CHOOSE i \in dots : TRUE
                 places == Slice(quantity, dot + 1, Len(quantity) + 1)
             IN  StrToNat(Slice(quantity, 1, dot)) * 100
                     + StrToNat(Ch(places, 1)) * 10
                     + StrToNat(Ch(places, 2))
                     + (IF StrToNat(Ch(places, 3)) >= 5 THEN 1 ELSE 0)


RECURSIVE Exponent(_)
\* floor(log2(h / 100)) of a positive number h of hundredths: the exponent
\* of the doubles next to h / 100
Exponent(h) ==
    IF h >= 200 THEN Exponent(h \div 2) + 1
    ELSE IF h >= 100 THEN 0
    ELSE Exponent(2 * h) - 1

RECURSIVE Pow2(_)
\* 2^n
Pow2(n) == IF n = 0 THEN 1 ELSE 2 * Pow2(n - 1)

RECURSIVE Pow2Mod(_, _)
\* 2^n modulo k
Pow2Mod(n, k) == IF n = 0 THEN 1 % k ELSE (2 * Pow2Mod(n - 1, k)) % k

\* whether h hundredths is a power of two
IsPow2(h) ==
    /\ h > 0
    /\ IF Exponent(h) >= 0 THEN h = 100 * Pow2(Exponent(h))
       ELSE h * Pow2(-Exponent(h)) = 100

\* A double x is held as the hundredths h it is next to and its error:
\* x = (h + error / 2^Scale(x)) / 100, where 2^-Scale(x) is 100 times the
\* distance from x to the next double.  The error is a whole number:
\* 100 * x * 2^Scale(x) is 100 times the mantissa of x.
Scale(x) ==
    52 - Exponent(x.hundredths)
       + (IF IsPow2(x.hundredths) /\ x.error < 0 THEN 1 ELSE 0)

\* the double nearest to h / 100
Double(h) ==
    IF h = 0 THEN [hundredths |-> 0, error |-> 0]
    ELSE LET r == ((h % 100) * Pow2Mod(52 - Exponent(h), 100)) % 100
         IN  [hundredths |-> h, error |-> IF r < 50 THEN -r ELSE 100 - r]

\* float(d) of a Decimal: the nearest double
float(quantity) == Double(Hundredths(quantity))

\* x + y of two doubles: the exact sum, (c + d / 2^M) / 100, rounded to the
\* nearest double, a tie to the even mantissa.  The doubles next to the sum
\* are G / 2^M hundredths apart; Z is 100 times the mantissa of the exact
\* sum modulo 2 G, so R is what the sum has above the double below it.
FloatAdd(x, y) ==
    IF x.hundredths = 0 THEN y
    ELSE IF y.hundredths = 0 THEN x
    ELSE LET c == x.hundredths + y.hundredths
             M == IF Scale(x) > Scale(y) THEN Scale(x) ELSE Scale(y)
             d == x.error * Pow2(M - Scale(x)) + y.error * Pow2(M - Scale(y))
             S == 52 - Exponent(c) + (IF IsPow2(c) /\ d < 0 THEN 1 ELSE 0)
             K == M - S
             G == 100 * Pow2(K)
             H == Pow2(K + 3) * (((c % 25) * Pow2Mod(S - 3, 25)) % 25)
             Z == (H + d) % (2 * G)
             R == Z % G
             up == 2 * R > G \/ (2 * R = G /\ Z >= G)
         IN  [hundredths |-> c,
              error |-> (d + (IF up THEN G - R ELSE -R)) \div Pow2(K)]

\* round(quantity, 2) that returns its argument
round2_Skipped(x) == x

\* round(quantity, 2): the double nearest to the value rounded to two
\* places; the error of the additions is far below half a hundredth
round2(x) == Double(x.hundredths)

\* ri.ingredient of a row read with select_related('ingredient')
IngredientOf(link) == CHOOSE row \in Ingredient_objects : row.pk = link.ingredient

RECURSIVE IngredientTotals(_, _)
\* the inner loop of lines 217-222 (api_views.py 133-138): ingredient_totals
\* after it has gone through the rows of one recipe
IngredientTotals(links, ingredient_totals) ==
    IF links = {} THEN ingredient_totals
    ELSE LET ri == CHOOSE link \in links : TRUE
             key == <<IngredientOf(ri).name, IngredientOf(ri).unit>>
         IN  IngredientTotals(links \ {ri},
                 IF key \in DOMAIN ingredient_totals
                 THEN [ingredient_totals EXCEPT ![key] = FloatAdd(@, float(ri.quantity))]
                 ELSE ingredient_totals @@ (key :> float(ri.quantity)))

\* lines 224-231 (api_views.py 140-147): shopping_list
shopping_list(ingredient_totals) ==
    LET keys == sorted(DOMAIN ingredient_totals)
    IN  [i \in 1..Len(keys) |->
            [name |-> keys[i][1], quantity |-> round2(ingredient_totals[keys[i]]),
             unit |-> keys[i][2]]]

\* the orders the rows of a list may come in: Meta.ordering is by added_at
\* (models.py 112), which the rows of the model do not carry
Orders(entries) ==
    {order \in [1..Cardinality(entries) -> entries] :
        \A i, j \in DOMAIN order : i # j => order[i] # order[j]}

\* the answer of a reader whose loops have come to ingredient_totals
\* (views.py 233-237, api_views.py 149-152).  The rows the REST serializer
\* reads for the recipes of the answer are not modelled.
Listed(request, ingredient_totals) ==
    IF request.view = "shopping_list_view"
    THEN [request |-> request, status |-> 200,
          template |-> "recipes/shopping_list.html",
          shopping_list |-> shopping_list(ingredient_totals)]
    ELSE [request |-> request, status |-> 200,
          ingredients |-> shopping_list(ingredient_totals)]

\* shopping_list_view (views.py 208-237) and ShoppingListViewSet.aggregated
\* (api_views.py 119, 124-152) take up one request: the loop of line 215
\* (131) runs the SELECT of the rows of the user's list, each with its
\* recipe; without rows the view answers
ShoppingItemsOf(requests) ==
    /\ BagCardinality(inflight) < MaxInflight
    /\ \E request \in requests :
        IF request.user = AnonymousUser THEN Unauthenticated(request)
        ELSE \E shopping_items \in
                     Orders({entry \in ShoppingList_objects :
                                entry.user = request.user}) :
                 IF shopping_items = <<>>
                 THEN Declined(Listed(request, <<>>))
                 ELSE /\ Starts(Frame(request, "recipe_ingredients",
                                      [todo |-> shopping_items,
                                       ingredient_totals |-> <<>>]))
                      /\ UNCHANGED <<Tables, id_seq>>
    /\ UNCHANGED otherVars

\* line 216 (132): the SELECT of the RecipeIngredient rows of the recipe of
\* the item at hand, each with its ingredient, and the loop over them; after
\* the last item the view answers
RecipeIngredients ==
    /\ \E frame \in At({"recipe_ingredients"}) :
        LET item == Head(frame.locals.todo)
            recipe_ingredients ==
                {link \in RecipeIngredient_objects : link.recipe = item.recipe}
            ingredient_totals ==
                IngredientTotals(recipe_ingredients, frame.locals.ingredient_totals)
        IN  IF Tail(frame.locals.todo) = <<>>
            THEN Ends(frame, Listed(frame.request, ingredient_totals))
            ELSE GoesOn(frame, Frame(frame.request, "recipe_ingredients",
                                     [todo |-> Tail(frame.locals.todo),
                                      ingredient_totals |-> ingredient_totals]))
    /\ UNCHANGED <<Tables, id_seq, otherVars>>

RECURSIVE SUM(_)
\* SUM(ri.quantity) of a group of rows: the exact sum of the NUMERIC
\* values, in hundredths
SUM(links) ==
    IF links = {} THEN 0
    ELSE LET ri == CHOOSE link \in links : TRUE
         IN  Hundredths(ri.quantity) + SUM(links \ {ri})

\* the rows of the joins of the query for a user: a RecipeIngredient row
\* for every row of the list its recipe is on
ListedLinks(user) ==
    {link \in RecipeIngredient_objects : EntriesOf(user, link.recipe) # {}}

\* get_shopping_list_summary_raw (db_service.py 157-184): the rows of the
\* joins grouped by ingredient and ordered by name, total_quantity being
\* float() of the Decimal the driver returns
get_shopping_list_summary_raw(user_id) ==
    LET groups == {link.ingredient : link \in ListedLinks(user_id)}
        named(key) == CHOOSE row \in Ingredient_objects :
                          row.pk \in groups /\ <<row.name, row.unit>> = key
        keys == sorted({<<row.name, row.unit>> :
                           row \in {row \in Ingredient_objects : row.pk \in groups}})
    IN  [i \in 1..Len(keys) |->
            [name |-> keys[i][1], unit |-> keys[i][2],
             total_quantity |->
                 Double(SUM({link \in ListedLinks(user_id) :
                                link.ingredient = named(keys[i]).pk}))]]

\* DatabaseService.get_shopping_list_summary_raw is called with the id of
\* a user (analytics_views.py 70): one statement
ShoppingListSummaryRaw ==
    /\ \E user_id \in Users :
        http' = [request |-> [view |-> "get_shopping_list_summary_raw",
                              user |-> user_id],
                 status |-> 200,
                 returned |-> get_shopping_list_summary_raw(user_id)]
    /\ UNCHANGED <<Tables, id_seq, inflight, otherVars>>

-----------------------------------------------------------------------------
(* SpecAggregate: the three readers on stored data drawn from bounded      *)
(* sets, which no request changes.                                         *)

\* the ingredients stored: their keys are not in the order of their names
AggregateIngredients ==
    { [pk |-> 1, name |-> "sol", unit |-> "g"],
      [pk |-> 2, name |-> "voda", unit |-> "ml"],
      [pk |-> 3, name |-> "dynj", unit |-> "g"] }

\* the quantity stored for a recipe and an ingredient, "" for no row
StoredQuantities == {"", "0.10", "0.20"}

\* the recipes and the ingredients they may ask for: the first recipe for
\* sol and voda, the second for voda and dynj
AggregatePairs == {<<1, 1>>, <<1, 2>>, <<2, 2>>, <<2, 3>>}

\* the rows of RecipeIngredient for a choice of quantities
LinksOf(quantities) ==
    {Link(3 * (pair[1] - 1) + pair[2], pair[1], pair[2], quantities[pair]) :
        pair \in {pair \in DOMAIN quantities : quantities[pair] # ""}}

\* the ShoppingList rows there may be
AggregateEntries == {Entry(1, "anna", 1), Entry(2, "anna", 2), Entry(3, "boris", 2)}

AggregateRequests ==
    [view : {"shopping_list_view", "ShoppingListViewSet.aggregated"},
     user : Users \cup {AnonymousUser}]

InitAggregate ==
    /\ Recipe_objects = ShopRecipes
    /\ id_seq = [Recipe |-> 2, Ingredient |-> 3, RecipeIngredient |-> 6,
                 ShoppingList |-> 3]
    /\ Ingredient_objects = AggregateIngredients
    /\ RecipeIngredient_objects \in
           {LinksOf(quantities) :
               quantities \in [AggregatePairs -> StoredQuantities]}
    /\ ShoppingList_objects \in SUBSET AggregateEntries
    /\ inflight = EmptyBag
    /\ http = None
    /\ IdlePure /\ IdleParser /\ IdleDirect /\ IdlePair

\* shopping_list_view takes up a request
ShoppingListView ==
    ShoppingItemsOf({request \in AggregateRequests :
                        request.view = "shopping_list_view"})

\* ShoppingListViewSet.aggregated takes up a request
Aggregated ==
    ShoppingItemsOf({request \in AggregateRequests :
                        request.view = "ShoppingListViewSet.aggregated"})

NextAggregate ==
    \/ ShoppingListView
    \/ Aggregated
    \/ RecipeIngredients
    \/ ShoppingListSummaryRaw

SpecAggregate == InitAggregate /\ [][NextAggregate]_vars

-----------------------------------------------------------------------------
(* SpecListing: the two views that list beside the requests that change    *)
(* what they read: anna has both recipes on her list, her recipe asks for  *)
(* 0.10 of voda and boris's for none; the ingredient is deleted, anna's    *)
(* recipe is relieved of it, and boris's recipe is given 0.25 of voda.     *)

ListingIngredients == { [pk |-> 1, name |-> "voda", unit |-> "ml"] }

ListingRequests ==
    [view : {"shopping_list_view", "ShoppingListViewSet.aggregated"},
     user : {"anna"}]

ListingAddRequests ==
    [view : {"add_ingredient_to_recipe"}, user : {"boris"}, pk : {2},
     method : {"POST"}, ingredient_name : {"voda"}, unit : {"ml"},
     quantity : {"0.25"}]

ListingRemoveRequests ==
    [view : {"remove_ingredient_from_recipe"}, user : {"anna"}, pk : {1},
     ingredient_pk : {1}]

ListingIngredientRequests ==
    [view : {"IngredientViewSet.destroy"}, user : {"boris"}, pk : {1}]

InitListing ==
    /\ Recipe_objects = ShopRecipes
    /\ Ingredient_objects = ListingIngredients
    /\ RecipeIngredient_objects = {Link(1, 1, 1, "0.10")}
    /\ ShoppingList_objects = {Entry(1, "anna", 1), Entry(2, "anna", 2)}
    /\ id_seq = [Recipe |-> 2, Ingredient |-> 1, RecipeIngredient |-> 1,
                 ShoppingList |-> 2]
    /\ inflight = EmptyBag
    /\ http = None
    /\ IdlePure /\ IdleParser /\ IdleDirect /\ IdlePair

ListingShoppingItems == ShoppingItemsOf(ListingRequests)

ListingAddIngredient == AddIngredientToRecipeOf(ListingAddRequests)

ListingRemoveIngredient == RemoveIngredientFromRecipeOf(ListingRemoveRequests)

ListingIngredientDetail == IngredientDetailOf(ListingIngredientRequests)

NextListing ==
    \/ ListingShoppingItems
    \/ RecipeIngredients
    \/ ListingAddIngredient
    \/ GetOrCreateIngredientGet
    \/ GetOrCreateIngredientCreate
    \/ GetOrCreateIngredientCommit
    \/ GetOrCreateLinkGet
    \/ GetOrCreateLinkCreate
    \/ GetOrCreateLinkCommit
    \/ SaveLink
    \/ SaveLinkInsert
    \/ ListingRemoveIngredient
    \/ RemoveIngredientGet
    \/ RemoveIngredientDelete
    \/ ListingIngredientDetail
    \/ DeleteIngredientLinks
    \/ DeleteIngredient
    \/ CommitDeleteIngredient

SpecListing == InitListing /\ [][NextListing]_vars

\* a view has answered with a total of rows that were never stored
\* together: the 0.10 of voda that anna's recipe asked for before the
\* ingredient was deleted, and the 0.25 that boris's recipe asks of the
\* ingredient of that name that was stored afterwards
MixedTotals ==
    /\ http # None
    /\ http.request \in ListingRequests
    /\ http.status = 200
    /\ Ingredient_objects = {[pk |-> 2, name |-> "voda", unit |-> "ml"]}
    /\ \E i \in 1..Len(IF http.request.view = "shopping_list_view"
                       THEN http.shopping_list ELSE http.ingredients) :
           (IF http.request.view = "shopping_list_view"
            THEN http.shopping_list ELSE http.ingredients)[i].quantity = Double(35)

-----------------------------------------------------------------------------
(* Properties of the aggregated shopping list (SpecAggregate)              *)

\* the entries of an answer as <<name, unit, total>>, whichever reader sent it
Totals(sent) ==
    IF sent.request.view = "get_shopping_list_summary_raw"
    THEN [i \in 1..Len(sent.returned) |->
             <<sent.returned[i].name, sent.returned[i].unit,
               sent.returned[i].total_quantity>>]
    ELSE LET list == IF sent.request.view = "shopping_list_view"
                     THEN sent.shopping_list ELSE sent.ingredients
         IN  [i \in 1..Len(list) |-> <<list[i].name, list[i].unit, list[i].quantity>>]

\* the hundredths a recipe asks of an ingredient when the recipe is on the
\* list of the user, 0 otherwise
Asked(user, recipe, ingredient) ==
    IF EntriesOf(user, recipe) # {}
          /\ \E link \in RecipeIngredient_objects :
                 link.recipe = recipe /\ link.ingredient = ingredient
    THEN Hundredths((CHOOSE link \in RecipeIngredient_objects :
                        link.recipe = recipe /\ link.ingredient = ingredient).quantity)
    ELSE 0

\* the ingredients used by a recipe on the list of the user
Used(user) ==
    {row \in Ingredient_objects :
        \E link \in RecipeIngredient_objects :
            /\ link.ingredient = row.pk
            /\ EntriesOf(user, link.recipe) # {}}

RECURSIVE Looped(_, _)
\* ingredient_totals after the loops of a view have gone through the items
\* while no row changes
Looped(todo, ingredient_totals) ==
    IF todo = <<>> THEN ingredient_totals
    ELSE Looped(Tail(todo),
                IngredientTotals({link \in RecipeIngredient_objects :
                                     link.recipe = Head(todo).recipe},
                                 ingredient_totals))

\* C30: the aggregated list of a user has exactly one entry for every
\* ingredient used by a recipe on the list, with the unit of the ingredient
\* and the sum of its quantities over the listed recipes, in ascending
\* order of the names; shopping_list_view, the REST aggregated action and
\* the raw-SQL summary give the same totals for the same stored data.
C30_AggregatedTotals ==
    (http # None /\ http.status = 200) =>
        LET user == http.request.user
            rows == Totals(http)
        IN  /\ Len(rows) = Cardinality(Used(user))
            /\ \A row \in Used(user) : \E i \in 1..Len(rows) :
                   rows[i] = <<row.name, row.unit,
                               Double(Asked(user, 1, row.pk) + Asked(user, 2, row.pk))>>
            /\ \A i, j \in 1..Len(rows) : i < j => StrLess(rows[i][1], rows[j][1])
            /\ \A shopping_items \in
                      Orders({entry \in ShoppingList_objects : entry.user = user}) :
                   rows = Totals(Listed([view |-> "shopping_list_view"],
                                        Looped(shopping_items, <<>>)))
            /\ rows = Totals([request |-> [view |-> "get_shopping_list_summary_raw"],
                              returned |-> get_shopping_list_summary_raw(user)])

\* a view has gone through both recipes of a user and answered: the answer
\* has the three ingredients in the order of their names, which is not the
\* order of their keys, and the first is asked for by both recipes, 0.10
\* and 0.20 of it, whose sum as doubles is not the double nearest to 0.30,
\* which the answer holds
C30_Witness ==
    /\ http # None
    /\ http.status = 200
    /\ http.request.view \in {"shopping_list_view", "ShoppingListViewSet.aggregated"}
    /\ Len(Totals(http)) = 3
    /\ Totals(http)[1] = <<"voda", "ml", Double(30)>>
    /\ FloatAdd(Double(10), Double(20)) # Double(30)
    /\ Totals(http)[2][1] = "dynj"
    /\ Totals(http)[3][1] = "sol"
    /\ Link(2, 1, 2, "0.10") \in RecipeIngredient_objects
    /\ Link(5, 2, 2, "0.20") \in RecipeIngredient_objects

-----------------------------------------------------------------------------
(* SpecExtract: _extract_cooking_time and _extract_servings called on a    *)
(* parser instance directly, as recipes/tests.py calls them: the instance  *)
(* holds no document (soup is None) or a page of NumberElements.           *)

\* How many elements a page of SpecExtract has at most.
MaxNumberElems == 2

NumberElements == {
    Node("time", "", "totalTime", {}, "1 c 20 min", <<>>),
    Node("span", "cooking-time", "", {}, "bystro", <<>>),
    Node("span", "cooking-time", "", {}, "45 min", <<>>),
    Node("div", "recipe-time", "", {}, "okolo 090 minut", <<>>),
    Node("span", "", "recipeYield", {}, "6", <<>>),
    Node("div", "servings", "", {}, "mnogo", <<>>),
    Node("div", "recipe-servings", "", {}, "na 8-10 person", <<>>),
    P("", "Gotovit 20 min, na 6 porqij"),
    P("", "2 porqii za 15minut"),
    P("", "Min 10, Porqij 3"),
    P("", "1 5\tmin i 12") }

RECURSIVE NumberPages(_)
\* the pages of at most n elements of NumberElements
NumberPages(n) ==
    IF n = 0 THEN {<<>>}
    ELSE LET T == NumberPages(n - 1)
         IN  T \cup {Append(t, e) : t \in T, e \in NumberElements}

\* A call that raised the exception e.
Raised(e) == [raised |-> e]

InitExtract ==
    /\ soup \in {None} \cup {Soup(d) : d \in NumberPages(MaxNumberElems)}
    /\ extracted = <<>>
    /\ pc = "idle"
    /\ calls = 0
    /\ response = None
    /\ fetches = 0
    /\ ran = <<>>
    /\ recipe_data = None
    /\ result = NotRun
    /\ IdlePure /\ IdlePair /\ IdleSite

\* one direct call of an extractor; self.soup.select_one of lines 244 and
\* 267 is an attribute access on self.soup, an AttributeError when it is None
CallExtractor(name, outcome) ==
    /\ name \notin DOMAIN extracted
    /\ extracted' = extracted @@ (name :> outcome)
    /\ UNCHANGED <<pureVars, parserVars, pairVars, siteVars>>

CallExtractCookingTime ==
    CallExtractor("_extract_cooking_time",
                  IF soup = None THEN Raised("AttributeError")
                  ELSE Returned(_extract_cooking_time(soup.page)))

CallExtractServings ==
    CallExtractor("_extract_servings",
                  IF soup = None THEN Raised("AttributeError")
                  ELSE Returned(_extract_servings(soup.page)))

NextExtract == CallExtractCookingTime \/ CallExtractServings

SpecExtract == InitExtract /\ [][NextExtract]_vars

-----------------------------------------------------------------------------
(* Properties of the number extractors (SpecExtract)                       *)

\* positions i .. j-1 of text are a run of digits that is not part of a
\* longer one
IsDigitRun(text, i, j) ==
    /\ i < j
    /\ \A k \in i..(j - 1) : IsDigit(Ch(text, k))
    /\ ~IsDigit(Ch(text, i - 1))
    /\ ~IsDigit(Ch(text, j))

DigitRuns(text) ==
    {r \in (1..Len(text)) \X (2..(Len(text) + 1)) : IsDigitRun(text, r[1], r[2])}

\* the runs of digits after which, whitespace apart, the word stands
RunsBefore(text, word) ==
    {r \in DigitRuns(text) :
        \E w \in r[2]..(Len(text) + 1) :
            /\ \A k \in r[2]..(w - 1) : IsSpace(Ch(text, k))
            /\ Slice(text, w, w + Len(word)) = word}

\* the number a set of runs starts with
FirstRun(text, runs) ==
    LET r == CHOOSE r \in runs : \A q \in runs : r[1] <= q[1]
    IN  StrToNat(Slice(text, r[1], r[2]))

\* the number the documentation promises of a page
ExpectedNumber(page, selectors, word, default) ==
    LET TextOf(k) == get_text(Head(select_one(page, selectors[k])))
        withDigits == {k \in 1..Len(selectors) :
                          /\ select_one(page, selectors[k]) # <<>>
                          /\ DigitRuns(TextOf(k)) # {}}
        first == CHOOSE k \in withDigits : \A j \in withDigits : k <= j
    IN  IF withDigits # {} THEN FirstRun(TextOf(first), DigitRuns(TextOf(first)))
        ELSE IF RunsBefore(all_text(page), word) # {}
             THEN FirstRun(all_text(page), RunsBefore(all_text(page), word))
             ELSE default

\* C12: on a loaded document _extract_cooking_time and _extract_servings
\* return the first run of digits of the first structured selector whose
\* element's text has digits, else the first number of the page text that
\* stands before "мин" / "порц", else the defaults 30 and 4.
C12_NumberFallbacks ==
    soup # None =>
        /\ "_extract_cooking_time" \in DOMAIN extracted =>
               extracted["_extract_cooking_time"] =
                   Returned(ExpectedNumber(soup.page, CookingTimeSelectors, "min", 30))
        /\ "_extract_servings" \in DOMAIN extracted =>
               extracted["_extract_servings"] =
                   Returned(ExpectedNumber(soup.page, ServingsSelectors, "porq", 4))

\* the first time selector had no digits and no later one matched: the
\* time came from the page text, the servings from a selector
C12_Witness ==
    /\ soup = Soup(<<Node("span", "cooking-time", "", {}, "bystro", <<>>),
                     P("", "2 porqii za 15minut")>>)
    /\ DOMAIN extracted = {"_extract_cooking_time", "_extract_servings"}
    /\ extracted["_extract_cooking_time"] = Returned(15)
    /\ extracted["_extract_servings"] = Returned(2)

\* C13 as claimed: on an instance with no document loaded (soup is None)
\* _extract_cooking_time returns 30 and _extract_servings returns 4, without
\* raising.
C13_DefaultsWithoutDocument ==
    soup = None =>
        /\ "_extract_cooking_time" \in DOMAIN extracted =>
               extracted["_extract_cooking_time"] = Returned(DefaultCookingTime)
        /\ "_extract_servings" \in DOMAIN extracted =>
               extracted["_extract_servings"] = Returned(DefaultServings)

-----------------------------------------------------------------------------
(* SpecFields: _extract_title, _extract_description, _extract_instructions *)
(* and _extract_ingredients called directly, in any order, on a parser     *)
(* instance that holds a page of FieldElements.                            *)

\* How many elements a page of SpecFields has at most.
MaxFieldElems == 2

FieldElements == {
    Node("h1", "recipe-title", "", {}, "", <<>>),
    Node("title", "", "", {}, "Borx reqept | KukSajt", <<>>),
    Meta("description", "", ""),
    Meta("", "og:description", " Sup iz svekly "),
    Meta("og:description", "description", "Sup"),
    Node("div", "recipe-instructions", "", {}, "",
         <<P("", "Varit"), Li("", "Narezat sveklu"), P("", "Podavat so smetanoj")>>),
    Node("ol", "recipe-steps", "", {}, "", <<Li("", "Varit")>>),
    Node("ul", "recipe-ingredients", "", {}, "", <<Li("", "i"), Li("", " ")>>),
    Node("ul", "ingredient-list", "", {}, "",
         <<Li("", "3 g  "), Li("", "500,5 g muki"), Li("", "sol")>>),
    Li("ingredient-item", "2 stakana moloka"),
    P("ingredient", " 0,5 l moloka ") }

RECURSIVE FieldPages(_)
\* the pages of at most n elements of FieldElements
FieldPages(n) ==
    IF n = 0 THEN {<<>>}
    ELSE LET T == FieldPages(n - 1)
         IN  T \cup {Append(t, e) : t \in T, e \in FieldElements}

\* Pages with ingredients in several places: a first container whose items
\* do not parse, a later container, and items marked by their class.
SeveralSourcesPages ==
    LET unparsed == Node("ul", "recipe-ingredients", "", {}, "", <<Li("", "i"), Li("", " ")>>)
        list == Node("ul", "ingredient-list", "", {}, "",
                     <<Li("", "500,5 g muki"), Li("ingredient", "sol")>>)
        yield == Node("ul", "", "recipeIngredient", {}, "", <<Li("", "Sol ~ 1 c.l.")>>)
        marked == P("ingredient", " 0,5 l moloka ")
    IN  { <<unparsed, list, marked>>, <<marked, list, yield>>,
          <<unparsed, marked, Li("ingredient", "i")>>,
          <<unparsed, Li("ingredient", "i"), P("ingredient", " ")>> }

InitFields ==
    /\ soup \in {Soup(d) : d \in FieldPages(MaxFieldElems) \cup SeveralSourcesPages}
    /\ extracted = <<>>
    /\ pc = "idle"
    /\ calls = 0
    /\ response = None
    /\ fetches = 0
    /\ ran = <<>>
    /\ recipe_data = None
    /\ result = NotRun
    /\ IdlePure /\ IdlePair /\ IdleSite

CallExtractTitle ==
    CallExtractor("_extract_title", Returned(_extract_title(soup.page)))

CallExtractDescription ==
    CallExtractor("_extract_description", Returned(_extract_description(soup.page)))

CallExtractInstructions ==
    CallExtractor("_extract_instructions", Returned(_extract_instructions(soup.page)))

CallExtractIngredients ==
    CallExtractor("_extract_ingredients", Returned(_extract_ingredients(soup.page)))

NextFields ==
    \/ CallExtractTitle
    \/ CallExtractDescription
    \/ CallExtractInstructions
    \/ CallExtractIngredients

SpecFields == InitFields /\ [][NextFields]_vars

-----------------------------------------------------------------------------
(* Properties of parse_recipe (Spec)                                       *)

\* a fetch that met a network error, a timeout, a 404 or 500 status, or
\* content that does not parse
FetchFailed(r) ==
    /\ r # None
    /\ \/ r.raised \in {"ConnectionError", "Timeout"}
       \/ r.status \in {404, 500}
       \/ ~r.parses

\* C1: when the fetch fails, parse_recipe has returned None after exactly
\* one fetch, no extractor has run and no dictionary was built.
C1_FetchFailure ==
    FetchFailed(response) =>
        /\ pc = "returned"
        /\ result = Returned(None)
        /\ fetches = 1
        /\ ran = <<>>
        /\ recipe_data = None

\* the second invocation met a 404 and returned None after one fetch
C1_Witness ==
    /\ calls = 2
    /\ response # None /\ response.status = 404
    /\ pc = "returned"
    /\ result = Returned(None)
    /\ fetches = 1

\* C2: a dictionary that parse_recipe returns has a title that is not
\* empty, and when the title extracted is empty parse_recipe returns None.
C2_TitleRequired ==
    /\ (result # NotRun /\ result # Returned(None)) => result.value.title # ""
    /\ (pc = "returned" /\ recipe_data # None /\ recipe_data.title = "") =>
            result = Returned(None)

\* every extractor ran, the title was empty, None was returned
C2_Witness ==
    /\ pc = "returned"
    /\ Len(ran) = 6
    /\ recipe_data # None /\ recipe_data.title = ""
    /\ result = Returned(None)

\* a page on which no title selector and no title tag finds an element
NoTitleElement(page) ==
    \A k \in 1..Len(Descendants(page)) : Descendants(page)[k].tag \notin {"h1", "title"}

\* C3 as claimed: when neither a selector nor the title tag yields a title
\* and only the placeholder title is left, parse_recipe returns None.
C3_PlaceholderTitleFails ==
    (pc = "returned" /\ recipe_data # None /\ NoTitleElement(soup.page)) =>
        /\ recipe_data.title = NoTitle
        /\ result = Returned(None)

\* an element one of the four container selectors describes
IsIngredientContainer(e) ==
    \/ /\ e.tag = "ul"
       /\ \/ e.class = "recipe-ingredients"
          \/ e.itemprop = "recipeIngredient"
          \/ <<"div", "ingredients">> \in e.within
    \/ e.class = "ingredient-list"

\* the texts of the items the ingredient extractor can take: the li of the
\* structured containers, and every li or p with "ingredient" in its class
IngredientTexts(page) ==
    LET all == Descendants(page)
    IN  UNION {{page[j].items[k].text :
                   k \in {k \in 1..Len(page[j].items) : page[j].items[k].tag = "li"}} :
               j \in {j \in 1..Len(page) : IsIngredientContainer(page[j])}}
        \cup {all[k].text :
                k \in {k \in 1..Len(all) :
                          /\ all[k].tag \in {"li", "p"}
                          /\ HasSubstring(all[k].class, "ingredient")}}

\* C4: the list of ingredients extracted from a document is never empty; it
\* is the two placeholders when no item of the document parses (an item
\* parses when its trimmed text is longer than 2 characters), and a
\* placeholder never stands beside a parsed item.
C4_IngredientsNeverEmpty ==
    (recipe_data # None /\ "ingredients" \in DOMAIN recipe_data) =>
        LET ingredients == recipe_data.ingredients
            texts == IngredientTexts(soup.page)
        IN  /\ ingredients # <<>>
            /\ (\A t \in texts : Len(Strip(t)) <= 2) =>
                   ingredients = PlaceholderIngredients
            /\ (\E k \in 1..Len(ingredients) :
                   ingredients[k] \in {PlaceholderIngredients[1], PlaceholderIngredients[2]})
                   => ingredients = PlaceholderIngredients
            /\ ingredients # PlaceholderIngredients =>
                   \A k \in 1..Len(ingredients) : \E t \in texts :
                       ingredients[k] = _parse_ingredient_string(Strip(t))

\* a container was found, none of its items parsed, the placeholders came
C4_Witness ==
    /\ recipe_data # None /\ "ingredients" \in DOMAIN recipe_data
    /\ \E k \in 1..Len(soup.page) : soup.page[k].class = "recipe-ingredients"
    /\ recipe_data.ingredients = PlaceholderIngredients

\* C11: of the example document (title tag "Борщ рецепт | CookSite", body
\* texts "Время приготовления: 45 мин" and "4 порции", ingredient-list of
\* "500 г свеклы" and "Соль – 1 ч.л."), parse_recipe returns the title "Борщ
\* рецепт", cooking_time 45, servings 4 and the ingredients (свеклы, 500, г),
\* (Соль, 1, ч.л.) in that order.
C11_EndToEnd ==
    (pc = "returned" /\ response # None /\ response.content \in ExamplePages) =>
        /\ result # Returned(None)
        /\ result.value.title = "Borx reqept"
        /\ result.value.cooking_time = 45
        /\ result.value.servings = 4
        /\ result.value.ingredients =
               << [name |-> "svekly", quantity |-> "500", unit |-> "g"],
                  [name |-> "Sol", quantity |-> "1", unit |-> "c.l."] >>

\* the example document with its list before the two texts was parsed
C11_Witness ==
    /\ pc = "returned"
    /\ response # None /\ response.content \in ExamplePages
    /\ response.content[2] = ExampleList
    /\ Len(response.content) = 4
    /\ result # Returned(None)
    /\ result.value.title = "Borx reqept"
    /\ result.value.cooking_time = 45

\* C14 as claimed: in every record parse_recipe returns, description and
\* instructions are strings that are not empty (the placeholder text stands
\* in whenever no strategy yields text).
C14_TextFieldsPopulated ==
    (result # NotRun /\ result # Returned(None)) =>
        /\ result.value.description # ""
        /\ result.value.instructions # ""

\* a title strategy (a selector or the title tag) found an element and its
\* text is not empty: a title other than the placeholder was extracted
TitleFound(page) ==
    LET got == Flatten(TitleBySelector(page) \o <<TitleByTag(page)>>)
    IN  got # <<>> /\ Head(got) # ""

\* C15 as claimed: parse_recipe returns a complete record of six fields if
\* and only if the fetch succeeded and a title was extracted; nothing the
\* other extractors meet makes it return None.
C15_RecordIffTitle ==
    (pc = "returned" /\ response # None) =>
        ((fetch_page(response) /\ TitleFound(response.content))
            <=> /\ result # Returned(None)
                /\ DOMAIN result.value = {"title", "description", "instructions",
                                          "ingredients", "cooking_time", "servings"})

-----------------------------------------------------------------------------
(* Properties of the unit normalizer (SpecUnit)                            *)

\* the fixed vocabulary: г, мл, кг, л, шт, ст.л., ч.л., стакан
CanonicalUnits == {"g", "ml", "kg", "l", "wt", "st.l.", "c.l.", "stakan"}

RECURSIVE LettersOf(_)
\* the characters of s other than periods and spaces, in lower case
LettersOf(s) ==
    IF s = "" THEN ""
    ELSE LET c == Ch(s, 1)
         IN  (IF c \in {".", " "} THEN "" ELSE LowerCh(c))
                 \o LettersOf(Slice(s, 2, Len(s) + 1))

\* the letters of every dictionary spelling, with the unit it stands for
SpellingTable ==
    {<<"g", "g">>, <<"gr", "g">>, <<"gramm", "g">>, <<"ml", "ml">>,
     <<"kg", "kg">>, <<"l", "l">>, <<"litr", "l">>, <<"wt", "wt">>,
     <<"wtuk", "wt">>, <<"stl", "st.l.">>, <<"cl", "c.l.">>,
     <<"stakan", "stakan">>}

IsVariant(s) == \E p \in SpellingTable : LettersOf(s) = p[1]

\* C5: _normalize_unit returns every canonical unit unchanged, and returns
\* the canonical unit of a dictionary spelling for every input that spells
\* it, whatever the case of its letters and wherever periods and spaces
\* stand in it.
C5_NormalizeVariants ==
    unitOut # NotRun =>
        /\ \A p \in SpellingTable :
               LettersOf(unitIn) = p[1] => unitOut = Returned(p[2])
        /\ unitIn \in CanonicalUnits => unitOut = Returned(unitIn)

\* "Ст Л" came back as "ст.л."
C5_Witness == unitIn = "St L" /\ unitOut = Returned("st.l.")

\* C6 as claimed: an input that spells no dictionary key comes back trimmed
\* of surrounding whitespace and otherwise unchanged.
C6_PassthroughTrimmed ==
    (unitOut # NotRun /\ ~IsVariant(unitIn)) => unitOut = Returned(Strip(unitIn))

\* C6, amended: an input that spells no dictionary key comes back exactly as
\* given, surrounding whitespace included (the caller strips, lines 192).
C6_PassthroughUnchanged ==
    (unitOut # NotRun /\ ~IsVariant(unitIn)) => unitOut = Returned(unitIn)

\* " кгм" came back with its leading space
C6_Witness ==
    /\ unitOut # NotRun
    /\ ~IsVariant(unitIn)
    /\ unitIn # Strip(unitIn)
    /\ unitIn # Lower(unitIn)
    /\ unitOut = Returned(unitIn)

-----------------------------------------------------------------------------
(* Properties of the per-item parser (SpecIngr)                            *)

Matches0(text) == Pattern0Matches(text) # <<>>
Matches1(text) == Pattern1Matches(text) # <<>>

\* what the documentation says is made of the groups of a match
Ingredient(g) ==
    [name |-> Strip(g.name),
     quantity |-> Replace(g.quantity, ",", "."),
     unit |-> _normalize_unit(g.unit)]

\* digits, or digits "." digits
IsDecimalString(q) ==
    LET j == DigitRunEnd(q, 1)
    IN  /\ j > 1
        /\ \/ j = Len(q) + 1
           \/ Ch(q, j) = "." /\ j + 1 <= Len(q) /\ DigitRunEnd(q, j + 1) = Len(q) + 1

\* C7 as claimed: the unit of every ingredient the parser returns is one of
\* the canonical units.
C7_UnitCanonical ==
    (parsed # NotRun /\ parsed.value # None) => parsed.value.unit \in CanonicalUnits

\* C8: of a line that matches a pattern the quantity is the matched number as
\* a string with its comma made a point, the name is trimmed and the unit is
\* normalized; "500,5 г муки" gives ("муки", "500.5", "г") and "500 г муки"
\* gives quantity "500" and unit "г".
C8_DecimalComma ==
    parsed # NotRun =>
        /\ line = "500,5 g muki" =>
               parsed.value = [name |-> "muki", quantity |-> "500.5", unit |-> "g"]
        /\ line = "500 g muki" =>
               parsed.value = [name |-> "muki", quantity |-> "500", unit |-> "g"]
        /\ (Matches0(line) \/ Matches1(line)) =>
               /\ parsed.value # None
               /\ IsDecimalString(parsed.value.quantity)
               /\ parsed.value.name = Strip(parsed.value.name)
               /\ \E g \in {Head(Pattern0Matches(line) \o Pattern1Matches(line))} :
                      parsed.value = Ingredient(g)

\* a comma-decimal quantity was parsed
C8_Witness ==
    /\ line = "500,5 g muki"
    /\ parsed = Returned([name |-> "muki", quantity |-> "500.5", unit |-> "g"])

\* C9: a line that matches both patterns is read quantity first: quantity
\* and unit are the leading number and unit, the rest of the line the name.
C9_QuantityFirstWins ==
    (parsed # NotRun /\ Matches0(line) /\ Matches1(line)) =>
        /\ parsed.value = Ingredient(Head(Pattern0Matches(line)))
        /\ \E j \in 2..(Len(line) + 1) :
               Replace(Slice(line, 1, j), ",", ".") = parsed.value.quantity

\* "500 г муки - 2 шт" was read as 500 г of "муки - 2 шт"
C9_Witness ==
    /\ line = "500 g muki - 2 wt"
    /\ Matches0(line) /\ Matches1(line)
    /\ Ingredient(Head(Pattern1Matches(line))) # Ingredient(Head(Pattern0Matches(line)))
    /\ parsed = Returned([name |-> "muki - 2 wt", quantity |-> "500", unit |-> "g"])

\* C10: a line of at most 2 characters is unparseable (None); a longer line
\* that matches neither pattern becomes the name of 1 шт; no line longer than
\* 2 characters is discarded.
C10_ShortLineRejected ==
    parsed # NotRun =>
        /\ Len(line) <= 2 => parsed.value = None
        /\ (Len(line) > 2 /\ ~Matches0(line) /\ ~Matches1(line)) =>
               parsed.value = [name |-> line, quantity |-> "1", unit |-> "wt"]
        /\ Len(line) > 2 => parsed.value # None

\* a two-character line was dropped
C10_Witness == Len(line) = 2 /\ parsed = Returned(None)

\* a letter
IsLetter(c) == IsWord(c) /\ ~IsDigit(c) /\ c # "_"

\* where the name of a quantity-first match starts in the line: the name is
\* the rest of the line, trimmed
NameStart(text, name) == Len(RStrip(text)) - Len(name) + 1

\* C24 as claimed: the quantity-first pattern takes a unit token only as a
\* complete word: of a line whose text after the number begins with a word
\* that merely starts with a unit abbreviation ("2 луковицы", "500 гр муки",
\* "2 литра молока") the parser does not make that word a unit and a
\* truncated name, so the name it returns never starts inside a word.
C24_UnitWholeWord ==
    (parsed # NotRun /\ Matches0(line)) =>
        LET start == NameStart(line, parsed.value.name)
        IN  ~(IsLetter(Ch(line, start)) /\ IsLetter(Ch(line, start - 1)))

-----------------------------------------------------------------------------
(* Properties of the field extractors (SpecFields)                         *)

\* the extractor was called and returned v
Extracted(name, v) == name \in DOMAIN extracted => extracted[name] = Returned(v)

\* the first value of a sequence that is not empty, else the default
FirstNonEmpty(values, default) ==
    LET full == SelectSeq(values, LAMBDA v : v # "")
    IN  IF full = <<>> THEN default ELSE Head(full)

\* C21 as claimed: the title, description and instructions extractors try
\* their strategies in priority order and return the first match that is
\* not empty: a selector that finds an element with empty text (or a meta
\* tag with empty content) does not end the search, the strategies after it
\* and the placeholder are still tried.
C21_FirstNonEmptyMatch ==
    /\ Extracted("_extract_title",
                 FirstNonEmpty(Flatten(TitleBySelector(soup.page)
                                           \o <<TitleByTag(soup.page)>>), NoTitle))
    /\ Extracted("_extract_description",
                 FirstNonEmpty(Flatten(DescriptionBySelector(soup.page)
                                           \o <<DescriptionByParagraph(soup.page)>>),
                               NoDescription))
    /\ Extracted("_extract_instructions",
                 FirstNonEmpty(Flatten(InstructionsBySelector(soup.page)
                                           \o <<InstructionsByText(soup.page)>>),
                               NoInstructions))

\* the texts of the li and p of a container that are longer than 10
\* characters, in document order
KeptSteps(element) ==
    SelectSeq([i \in 1..Len(element.items) |-> get_text_strip(element.items[i])],
              LAMBDA text : Len(text) > 10)

\* the kept steps numbered 1, 2, 3, ... and joined with newlines
NumberedSteps(element) ==
    Join([k \in 1..Len(KeptSteps(element)) |->
             NatToStr(k) \o ". " \o KeptSteps(element)[k]], "\n")

\* the containers the instructions selectors find that keep a step, in
\* the order of the selectors
StepContainers(page) ==
    SelectSeq(Flatten([k \in 1..Len(InstructionsSelectors) |->
                          select_one(page, InstructionsSelectors[k])]),
              LAMBDA element : KeptSteps(element) # <<>>)

\* C22 as claimed: within the matched instructions container the li and p
\* whose text is longer than 10 characters are kept in document order and
\* numbered 1, 2, 3, ... without gaps (the k-th kept step begins "k. "),
\* joined with newlines; shorter elements are skipped and take no number.
C22_StepsNumberedWithoutGaps ==
    StepContainers(soup.page) # <<>> =>
        Extracted("_extract_instructions",
                  NumberedSteps(Head(StepContainers(soup.page))))

\* the parsed items of the container selector k finds
ContainerItems(page, k) ==
    LET element == select_one(page, IngredientSelectors[k])
    IN  IF element = <<>> THEN <<>> ELSE ParseItems(ListItems(Head(element)), <<>>)

\* the parsed items of the li and p whose class holds "ingredient"
ScannedItems(page) == ParseItems(IngredientItems(page), <<>>)

\* the items of exactly one source: the first container that yields an
\* item, else the scan by class, else the placeholders
OneSourceItems(page) ==
    LET yielding == {k \in 1..Len(IngredientSelectors) : ContainerItems(page, k) # <<>>}
    IN  IF yielding # {}
        THEN ContainerItems(page, CHOOSE k \in yielding : \A j \in yielding : k <= j)
        ELSE IF ScannedItems(page) # <<>> THEN ScannedItems(page)
        ELSE PlaceholderIngredients

\* C23: _extract_ingredients returns, in document order, the parsed items of
\* exactly one source: the container of the first selector (in priority
\* order) whose container yields a parsed item; the scan of li/p by class
\* only when no container yields an item; the placeholders only when the
\* scan yields none; items of different sources are never mixed.
C23_OneIngredientSource ==
    Extracted("_extract_ingredients", OneSourceItems(soup.page))

\* the first container held nothing that parses and items marked by class
\* stood on the page: the items of the later container alone came back
C23_Witness ==
    /\ soup = Soup(<<Node("ul", "recipe-ingredients", "", {}, "",
                          <<Li("", "i"), Li("", " ")>>),
                     Node("ul", "ingredient-list", "", {}, "",
                          <<Li("", "500,5 g muki"), Li("ingredient", "sol")>>),
                     P("ingredient", " 0,5 l moloka ")>>)
    /\ "_extract_ingredients" \in DOMAIN extracted
    /\ extracted["_extract_ingredients"] =
           Returned(<< [name |-> "muki", quantity |-> "500.5", unit |-> "g"],
                       [name |-> "sol", quantity |-> "1", unit |-> "wt"] >>)

\* C25: every ingredient _extract_ingredients returns has a name that is
\* trimmed and not empty, a unit that is not empty and a quantity of the
\* form digits or digits.digits, without a comma.
C25_IngredientsWellFormed ==
    "_extract_ingredients" \in DOMAIN extracted =>
        LET ingredients == extracted["_extract_ingredients"].value
        IN  \A k \in 1..Len(ingredients) :
                /\ ingredients[k].name # ""
                /\ ingredients[k].name = Strip(ingredients[k].name)
                /\ ingredients[k].unit # ""
                /\ IsDecimalString(ingredients[k].quantity)
                /\ ~HasSubstring(ingredients[k].quantity, ",")

\* "3 г  " (read as the name of 1 шт once trimmed), "500,5 г муки" and "sol"
\* were extracted from one list
C25_Witness ==
    /\ "_extract_ingredients" \in DOMAIN extracted
    /\ extracted["_extract_ingredients"] =
           Returned(<< [name |-> "3 g", quantity |-> "1", unit |-> "wt"],
                       [name |-> "muki", quantity |-> "500.5", unit |-> "g"],
                       [name |-> "sol", quantity |-> "1", unit |-> "wt"] >>)

====
